---- MODULE Spec2Model ----
(***************************************************************************)
(* Clip assembly engine of alert-videos-processor.                         *)
(*                                                                         *)
(* ClipExtractor.extract_clip (src/clip_extractor.py) is modelled as a     *)
(* state machine whose steps are the blocking I/O calls of the function    *)
(* (credential check, listing, download, ffmpeg trim, manifest write,      *)
(* ffmpeg concat, faststart remux, thumbnail).  The retry loop of          *)
(* process_alert (src/alert_processor.py) is the caller; the loop of main  *)
(* over a batch of alerts (src/main.py) sees process_alert by its result.  *)
(* process_alert after the extraction (upload of the clip and of the       *)
(* thumbnail, API update, removal of the local files), the wait of main    *)
(* for the outcome-comparator task and the status file                     *)
(* (src/status_manager.py), whose content is a sequence of characters,     *)
(* are modelled step by step as well.  Writes of the status file are       *)
(* taken to succeed.                                                       *)
(*                                                                         *)
(* Time is counted in whole seconds.  A file of the output directory is    *)
(* identified by the pair <<kind, key>> from which the code builds its     *)
(* name; its content is one of the strings of Contents.  os.remove and     *)
(* os.replace on files of the output directory are taken to succeed.       *)
(***************************************************************************)
EXTENDS Integers, Sequences, FiniteSets, TLC

(* ------------------------------ bounds -------------------------------- *)
MaxChunks == 3        \* chunk files the source may hold
MaxMinutes == 2       \* largest configured before/after margin, in minutes
MaxRetries == 2       \* largest configured MAX_RETRIES
MaxAlertK == 90       \* alert instants range over 0 .. 10 * MaxAlertK seconds
MaxAlerts == 2        \* alerts in a batch
MaxCount == 3         \* largest count given to write_status_file
MaxPolls == 2         \* rounds of the wait for the outcome-comparator task
MaxTasks == 2         \* tasks in a task list

(* ------------------------- program constants -------------------------- *)
DefaultChunkDuration == 300
DefaultRetryDelay == 2
SecondsPerMinute == 60
SecondsPerHour == 3600
\* the None of a count of the status file
NoCount == -1

VARIABLES
    \* configuration of the ClipExtractor and of process_alert
    local_source_dir,        \* TRUE: local directory backend, FALSE: S3
    before_minutes,
    after_minutes,
    chunk_duration_seconds,
    max_retries,
    retry_delay_seconds,
    \* environment
    source,                  \* start instants of the chunk files in the source
    strays,                  \* names of the other files in the source
    enum_order,              \* the order in which the backend enumerates them
    fs,                      \* content of every path of the output directory
    \* main
    alerts,                  \* the batch of alerts fetched
    position,                \* alerts of the batch processed so far
    successful,
    failed,
    invoked,                 \* the alerts process_alert was called for, in order
    main_pc,
    run1,                    \* what an earlier run for the same alert did
    no_wait,                 \* --no-wait
    polls,                   \* rounds of the wait for the outcome-comparator
    last_tasks,              \* the task list the last round received
    last_status,             \* what the task status endpoint answered in it
    date_cursor,             \* whether --date-cursor is given
    status_file,             \* the characters of the status file
    status_writes,           \* the arguments of every write_status_file call
    fetched,                 \* get_alerts has been called
    exit_code,
    \* process_alert
    alert_time,              \* the alert's alertDate, as an instant
    attempt,                 \* extract_clip calls made so far for this alert
    returns,                 \* <<outcome, result>> of every call so far
    fs0,                     \* the output directory when the current call began
    retry_delay,             \* the delay of the next time.sleep
    sleeps,                  \* the delays slept so far for this alert, in order
    s3_url,                  \* what upload_file returned
    thumbnail_url,           \* what upload_thumbnail returned
    api_update,              \* how update_secondary_video ended, if called
    process_alert_result,    \* the tuple process_alert returned
    \* extract_clip
    pc,
    window_start,
    window_end,
    all_chunks,
    selected_chunks,
    idx,
    part_files,
    temp_files_to_cleanup,
    manifest,                \* the lines written to the concat file
    remux,                   \* how ensure_browser_playable_mp4's ffmpeg ended
    outcome,                 \* the return statement taken
    result,                  \* the returned pair
    log                      \* I/O operations of the current call, in order

vars == <<local_source_dir, before_minutes, after_minutes,
          chunk_duration_seconds, max_retries, retry_delay_seconds, source,
          strays, enum_order, fs, alerts, position, successful, failed,
          invoked, main_pc, run1, no_wait, polls, last_tasks, last_status,
          date_cursor, status_file, status_writes, fetched, exit_code,
          alert_time, attempt, returns, fs0, retry_delay, sleeps, s3_url,
          thumbnail_url, api_update, process_alert_result, pc,
          window_start, window_end,
          all_chunks, selected_chunks, idx, part_files,
          temp_files_to_cleanup, manifest, remux, outcome, result, log>>

config == <<local_source_dir, before_minutes, after_minutes,
            chunk_duration_seconds, max_retries, retry_delay_seconds, source,
            strays, enum_order, alert_time>>

waiting == <<no_wait, polls, last_tasks, last_status>>

progress == <<date_cursor, status_file, status_writes, fetched, exit_code>>

outer == <<alerts, position, successful, failed, invoked, main_pc, run1,
           waiting, progress>>

uploads == <<s3_url, thumbnail_url, api_update, process_alert_result>>

caller == <<attempt, fs0, retry_delay, sleeps, uploads>>

(* ------------------------------ inputs -------------------------------- *)
\* Chunk files are recorded back to back, one every DefaultChunkDuration.
ChunkStarts == {DefaultChunkDuration * k : k \in 0 .. (MaxChunks - 1)}

ChunkDurations == {SecondsPerMinute, DefaultChunkDuration}

Margins == 0 .. MaxMinutes

\* Alert instants on a 10 s grid and one second before each grid point.
AlertTimes == {t \in {10 * k - d : k \in 0 .. MaxAlertK, d \in 0 .. 1} : t >= 0}

\* Configured RETRY_DELAY_SECONDS.
RetryDelays == {1, DefaultRetryDelay}

\* Alert instants of the runs in which the environment may fail.
FaultAlertTimes == {290, 450}

\* An alert of the API: whether it has an id, and its alertDate: missing,
\* not an ISO date, or the ISO date of the instant t.
Alert(id, date, t) == [id |-> id, date |-> date, t |-> t]

\* what the alertDate of an alert may be: missing, not an ISO date, an ISO
\* date, or an ISO date with a UTC offset followed by 'Z'
AlertDates == {"missing", "unparseable", "iso", "iso_offset_z"}

AlertKinds ==
    {Alert(id, "iso", t) : id \in BOOLEAN, t \in FaultAlertTimes}
    \cup {Alert(id, date, 0) :
              id \in BOOLEAN, date \in {"missing", "unparseable"}}

RECURSIVE SeqsUpTo(_, _)
SeqsUpTo(S, n) ==
    IF n = 0 THEN {<<>>}
    ELSE LET shorter == SeqsUpTo(S, n - 1)
         IN  shorter \cup {Append(q, x) : q \in shorter, x \in S}

\* the non-empty batches get_alerts may return
Batches == SeqsUpTo(AlertKinds, MaxAlerts) \ {<<>>}

(* ----------------------------- file names ----------------------------- *)
\* A file name <stem>_DDMMYYYY_HHMMSS.mp4<tail> is the record of its parts.
Stems == <<"clip", "gcam">>
Tails == <<"", ".copy.mp4", ".part">>

FileName(stem, d, mo, y, h, mi, s, tail) ==
    [stem |-> stem, d |-> d, mo |-> mo, y |-> y, h |-> h, mi |-> mi,
     s |-> s, tail |-> tail]

\* Instants are the seconds elapsed since 01/01/2025 00:00:00.
Epoch == [y |-> 2025, mo |-> 1, d |-> 1]

IsLeapYear(y) == (y % 4 = 0 /\ y % 100 # 0) \/ y % 400 = 0

DaysInMonth(y, mo) ==
    IF mo = 2 THEN (IF IsLeapYear(y) THEN 29 ELSE 28)
    ELSE IF mo \in {4, 6, 9, 11} THEN 30 ELSE 31

RECURSIVE DaysBeforeMonth(_, _)
DaysBeforeMonth(y, mo) ==
    IF mo <= 1 THEN 0
    ELSE DaysBeforeMonth(y, mo - 1) + DaysInMonth(y, mo - 1)

RECURSIVE DaysBeforeYear(_)
DaysBeforeYear(y) ==
    IF y <= Epoch.y THEN 0
    ELSE DaysBeforeYear(y - 1) + (IF IsLeapYear(y - 1) THEN 366 ELSE 365)

\* datetime.datetime(y, mo, d, h, mi, s) accepts the fields
ValidDateTime(y, mo, d, h, mi, s) ==
    /\ y >= 1 /\ y <= 9999
    /\ mo >= 1 /\ mo <= 12
    /\ d >= 1 /\ d <= DaysInMonth(y, mo)
    /\ h >= 0 /\ h <= 23
    /\ mi >= 0 /\ mi <= 59
    /\ s >= 0 /\ s <= 59

\* the instant of a valid datetime not earlier than the epoch
Instant(y, mo, d, h, mi, s) ==
    (DaysBeforeYear(y) + DaysBeforeMonth(y, mo) + (d - 1)) * 86400
        + h * 3600 + mi * 60 + s

\* the name the recorder gives to the chunk that starts at instant t
\* (within the first month of the epoch)
NameOfStart(t) ==
    FileName("gcam", Epoch.d + t \div 86400, Epoch.mo, Epoch.y,
             (t % 86400) \div 3600, (t % 3600) \div 60, t % 60, "")

\* ClipExtractor._parse_chunk_start_time with the default pattern: re.match
\* accepts any tail; the result is None, a ValueError or the start instant
ParseChunkStartTime(name) ==
    IF name.stem # "gcam" THEN [kind |-> "none", t |-> 0]
    ELSE IF ~ValidDateTime(name.y, name.mo, name.d, name.h, name.mi, name.s)
         THEN [kind |-> "error", t |-> 0]
         ELSE [kind |-> "time",
               t |-> Instant(name.y, name.mo, name.d, name.h, name.mi,
                             name.s)]

\* filename.endswith('.mp4')
EndsWithMp4(name) == name.tail \in {"", ".copy.mp4"}

\* the order of the names as strings (the order of S3 keys)
Rank(seq, x) == CHOOSE i \in DOMAIN seq : seq[i] = x

NameKey(n) ==
    <<Rank(Stems, n.stem), n.d, n.mo, n.y, n.h, n.mi, n.s,
      Rank(Tails, n.tail)>>

NameLess(a, b) ==
    \E i \in DOMAIN NameKey(a) :
        /\ NameKey(a)[i] < NameKey(b)[i]
        /\ \A j \in 1 .. (i - 1) : NameKey(a)[j] = NameKey(b)[j]

RECURSIVE SortedByName(_)
SortedByName(names) ==
    IF names = {} THEN <<>>
    ELSE LET m == CHOOSE x \in names :
                      \A z \in names \ {x} : NameLess(x, z)
         IN  <<m>> \o SortedByName(names \ {m})

Reverse(seq) == [i \in DOMAIN seq |-> seq[Len(seq) + 1 - i]]

\* files that do not follow the naming convention, or that share the start
\* instant of a chunk
StrayNames ==
    {FileName("clip", 1, 1, 2025, 0, 5, 0, ""),
     FileName("gcam", 32, 1, 2025, 0, 5, 0, ""),
     FileName("gcam", 1, 13, 2025, 0, 5, 0, ""),
     FileName("gcam", 1, 1, 2025, 0, 5, 0, ".copy.mp4"),
     FileName("gcam", 1, 1, 2025, 0, 5, 0, ".part")}

\* the files of the source
Files(src, others) == {NameOfStart(t) : t \in src} \cup others

\* the orders in which a backend may enumerate the files: S3 by key,
\* os.listdir in arbitrary order (two of them are kept)
EnumOrders(is_local, names) ==
    IF is_local
    THEN {SortedByName(names), Reverse(SortedByName(names))}
    ELSE {SortedByName(names)}

(* ------------------------------- paths -------------------------------- *)
None == <<"None", -1>>

PartPath(i) == <<"part", i>>
ChunkPath(name) == <<"chunk", name>>
OutputPath(ts) == <<"alert_clip", ts>>
ConcatPath(ts) == <<"concat", ts>>
TempConcatPath(ts) == <<"alert_clip_temp", ts>>
FaststartPath(ts) == <<"alert_clip_temp.temp", ts>>
ThumbPath(ts) == <<"thumb", ts>>
\* a file of the local source directory (os.path.join, line 187)
SourcePath(name) == <<"source", name>>

Contents == {"absent", "empty", "partial", "chunk", "segment", "manifest",
             "concat", "faststart", "jpeg"}

Exists(f, p) == f[p] # "absent"
NonEmpty(f, p) == f[p] \notin {"absent", "empty"}

Range(s) == {s[i] : i \in DOMAIN s}

(* --------------------------- pure functions --------------------------- *)
\* a chunk whose end ignores the configured duration
ChunkOfDefaultDuration(name, s, dur) ==
    [name |-> name, S |-> s, E |-> s + DefaultChunkDuration]

\* ClipExtractor._list_chunks / _list_local_chunks: the dictionary of one
\* chunk, E = S + chunk_duration_seconds
Chunk(name, s, dur) == [name |-> name, S |-> s, E |-> s + dur]

\* list.sort(key=lambda x: x["S"]) is stable: a chunk goes after the chunks
\* of smaller or equal start that were enumerated before it
InsertByStart(sorted, c) ==
    LET k == Cardinality({i \in DOMAIN sorted : sorted[i].S <= c.S})
    IN  SubSeq(sorted, 1, k) \o <<c>> \o SubSeq(sorted, k + 1, Len(sorted))

\* a listing that leaves the chunks in the order of enumeration
KeepEnumerationOrder(chunks) == chunks

RECURSIVE SortByStart(_)
SortByStart(chunks) ==
    IF chunks = <<>> THEN <<>>
    ELSE InsertByStart(SortByStart(SubSeq(chunks, 1, Len(chunks) - 1)),
                       chunks[Len(chunks)])

\* the loops of _list_chunks (lines 129-147) and _list_local_chunks (lines
\* 173-192) over the enumerated names; "raised" when a name made
\* _parse_chunk_start_time raise
RECURSIVE CollectChunks(_, _, _)
CollectChunks(names, is_local, dur) ==
    IF names = <<>> THEN [raised |-> FALSE, chunks |-> <<>>]
    ELSE LET name == names[1]
             parsed == ParseChunkStartTime(name)
             rest == CollectChunks(Tail(names), is_local, dur)
         IN  IF is_local /\ ~EndsWithMp4(name) THEN rest
             ELSE IF parsed.kind = "none" THEN rest
             ELSE IF parsed.kind = "error"
                  THEN [raised |-> TRUE, chunks |-> <<>>]
                  ELSE [raised |-> rest.raised,
                        chunks |-> IF rest.raised THEN <<>>
                                   ELSE <<Chunk(name, parsed.t, dur)>>
                                            \o rest.chunks]

\* a listing whose last chunk is still being recorded and has no duration
ListedChunksLastOpen(reachable, names, is_local, dur) ==
    LET collected == CollectChunks(names, is_local, dur)
        listed == IF ~reachable \/ collected.raised THEN <<>>
                  ELSE SortByStart(collected.chunks)
    IN  IF listed = <<>> THEN <<>>
        ELSE [listed EXCEPT ![Len(listed)].E = listed[Len(listed)].S]

\* ClipExtractor._list_chunks / _list_local_chunks: the sorted chunks, or the
\* empty list when the enumeration (reachable = FALSE) or a name raised
ListedChunks(reachable, names, is_local, dur) ==
    IF ~reachable THEN <<>>
    ELSE LET collected == CollectChunks(names, is_local, dur)
         IN  IF collected.raised THEN <<>>
             ELSE SortByStart(collected.chunks)

\* an intersection test on closed intervals
ChunkTouchesWindow(chunk, ws, we) ==
    ~(chunk.E < ws \/ chunk.S > we)

\* ClipExtractor._chunk_intersects_window
ChunkIntersectsWindow(chunk, ws, we) ==
    ~(chunk.E <= ws \/ chunk.S >= we)

\* a selection that keeps every listed chunk
SelectEveryChunk(chunks, ws, we) == chunks

\* the list comprehension of extract_clip, line 326
SelectChunks(chunks, ws, we) ==
    SelectSeq(chunks, LAMBDA c : ChunkIntersectsWindow(c, ws, we))

Max(a, b) == IF a >= b THEN a ELSE b

\* a minimum that is always its first argument
FirstOf(a, b) == a

Min(a, b) == IF a <= b THEN a ELSE b

\* an offset measured from the window start whatever the chunk start
OffsetFromWindowStart(chunk, ws) == ws - chunk.S

\* a duration that runs to the end of the chunk whatever the window end
DurationToChunkEnd(chunk, ws, we) == chunk.E - Max(chunk.S, ws)

\* extract_clip, lines 365-370
OffsetSeconds(chunk, ws) == Max(chunk.S, ws) - chunk.S
DurationSeconds(chunk, ws, we) == Min(chunk.E, we) - Max(chunk.S, ws)

\* a cleanup that forgets the last registered path
CleanupAllButLast(f, files) ==
    [p \in DOMAIN f |->
        IF \E i \in 1 .. (Len(files) - 1) : files[i] = p
        THEN "absent" ELSE f[p]]

\* ClipExtractor._cleanup_temp_files
CleanupTempFiles(f, files) ==
    [p \in DOMAIN f |-> IF p \in Range(files) THEN "absent" ELSE f[p]]

\* extract_clip, lines 342-353 and 403-420: the paths a call for the alert
\* instant ts registers in temp_files_to_cleanup when it works on the chunks
\* "selected"
RegisteredPaths(ts, selected, is_local) ==
    {PartPath(i - 1) : i \in DOMAIN selected}
    \cup (IF is_local THEN {}
          ELSE {ChunkPath(selected[i].name) : i \in DOMAIN selected})
    \cup (IF selected = <<>> THEN {}
          ELSE {ConcatPath(ts), TempConcatPath(ts)})

\* main, get_alert_datetime (lines 704-718): alerts without a date or with
\* an unparseable date sort first (datetime.min)
AlertSortKey(alert) == IF alert.date = "iso" THEN alert.t ELSE -1

\* list.sort(key=get_alert_datetime) is stable
InsertByDate(sorted, a) ==
    LET k == Cardinality({i \in DOMAIN sorted :
                             AlertSortKey(sorted[i]) <= AlertSortKey(a)})
    IN  SubSeq(sorted, 1, k) \o <<a>> \o SubSeq(sorted, k + 1, Len(sorted))

RECURSIVE SortByDate(_)
SortByDate(batch) ==
    IF batch = <<>> THEN <<>>
    ELSE InsertByDate(SortByDate(SubSeq(batch, 1, Len(batch) - 1)),
                      batch[Len(batch)])

\* process_alert as main sees it: it returns success or failure, or an
\* exception leaves it.  creds: the credential check of extract_clip passes;
\* clip: one of the attempts returns a clip; upload, api: the upload of the
\* clip and the update of the API succeed.  extract_clip parses the
\* alertDate after the credential check and outside its try block (lines
\* 291-307): a date that is not ISO raises ValueError, which nothing in
\* process_alert catches.
ProcessAlertResult(alert, creds, clip, upload, api) ==
    IF ~alert.id \/ alert.date = "missing" THEN "failure"
    ELSE IF ~creds THEN "failure"
    ELSE IF alert.date = "unparseable" THEN "raise"
    ELSE IF ~clip THEN "failure"
    ELSE IF alert.date # "iso" THEN "failure"
    ELSE IF ~upload THEN "failure"
    ELSE IF ~api THEN "failure"
    ELSE "success"

(* ----------------------------- status file --------------------------- *)
\* Strings of the status file are sequences of characters.
Digits == <<"0", "1", "2", "3", "4", "5", "6", "7", "8", "9">>
Whitespace == {" ", "\n"}

EMPTY == <<"E", "M", "P", "T", "Y">>
PROCESSING == <<"P", "R", "O", "C", "E", "S", "S", "I", "N", "G">>
FINISHED == <<"F", "I", "N", "I", "S", "H", "E", "D">>

\* the None status, and the status file that does not exist
NoStatus == <<"None">>
NoFile == <<"absent">>

\* f"{count}"
RECURSIVE Str(_)
Str(n) ==
    IF n < 10 THEN <<Digits[n + 1]>>
    ELSE Str(n \div 10) \o <<Digits[(n % 10) + 1]>>

\* write_status_file, lines 44-49: the characters written
StatusFileContent(status, total_count, processed_count) ==
    status \o <<"\n">>
    \o (IF total_count # NoCount THEN Str(total_count) \o <<"\n">> ELSE <<>>)
    \o (IF processed_count # NoCount
        THEN Str(processed_count) \o <<"\n">> ELSE <<>>)

\* f.readlines(): the lines, each with its line end
RECURSIVE ReadLines(_)
ReadLines(chars) ==
    IF chars = <<>> THEN <<>>
    ELSE LET ends == {i \in DOMAIN chars : chars[i] = "\n"}
             k == IF ends = {} THEN Len(chars)
                  ELSE CHOOSE i \in ends : \A j \in ends : i <= j
         IN  <<SubSeq(chars, 1, k)>>
             \o ReadLines(SubSeq(chars, k + 1, Len(chars)))

\* str.strip()
Strip(line) ==
    LET keep == {i \in DOMAIN line : line[i] \notin Whitespace}
    IN  IF keep = {} THEN <<>>
        ELSE SubSeq(line,
                    CHOOSE i \in keep : \A j \in keep : i <= j,
                    CHOOSE i \in keep : \A j \in keep : i >= j)

\* str.isdigit()
IsDigit(line) ==
    /\ line # <<>>
    /\ \A i \in DOMAIN line : \E d \in DOMAIN Digits : Digits[d] = line[i]

\* int()
RECURSIVE IntOf(_)
IntOf(line) ==
    IF line = <<>> THEN 0
    ELSE 10 * IntOf(SubSeq(line, 1, Len(line) - 1))
         + (CHOOSE d \in DOMAIN Digits : Digits[d] = line[Len(line)]) - 1

\* read_status_file, lines 17-27
read_status_file(file) ==
    IF file = NoFile THEN <<NoStatus, NoCount, NoCount>>
    ELSE LET raw == ReadLines(file)
             lines == [i \in DOMAIN raw |-> Strip(raw[i])]
         IN  <<IF Len(lines) > 0 THEN lines[1] ELSE NoStatus,
               IF Len(lines) > 1 /\ IsDigit(lines[2])
               THEN IntOf(lines[2]) ELSE NoCount,
               IF Len(lines) > 2 /\ IsDigit(lines[3])
               THEN IntOf(lines[3]) ELSE NoCount>>

\* 'if status': neither None nor the empty string
Truthy(status) == status # NoStatus /\ status # <<>>

\* the status strings and counts write_status_file may be given
StatusStrings ==
    {EMPTY, PROCESSING, FINISHED, <<>>, <<" ">> \o EMPTY,
     <<"7">>, <<"A", "\n", "B">>}

Counts == {NoCount} \cup (0 .. MaxCount)

\* the status files main may find: none, one that was cut to length 0, and
\* those an earlier run of main wrote
InitialStatusFiles ==
    {NoFile, <<>>,
     StatusFileContent(EMPTY, NoCount, NoCount),
     StatusFileContent(PROCESSING, MaxAlerts, 1),
     StatusFileContent(FINISHED, MaxAlerts, MaxAlerts)}

(* -------------------------------- tasks ------------------------------- *)
\* A task of the tasks API: its type, whether started_at is missing, not an
\* ISO date or an ISO date, the seconds since started_at, its status and
\* whether it has a task_id.
Task(type, start, age, status, id) ==
    [type |-> type, start |-> start, age |-> age, status |-> status,
     id |-> id]

TaskKinds ==
    {Task("other", "iso", 600, "completed", TRUE),
     Task("outcome-comparator", "iso", 600, "running", FALSE)}
    \cup {Task("outcome-comparator", "iso", age, status, TRUE) :
              age \in {-60, 600, 2 * SecondsPerHour},
              status \in {"completed", "running"}}
    \cup {Task("outcome-comparator", start, 0, status, TRUE) :
              start \in {"none", "unparseable"},
              status \in {"completed", "running"}}

TaskLists == SeqsUpTo(TaskKinds, MaxTasks)

\* a choice of the first outcome-comparator task, whenever it started
SelectTaskAnyAge(tasks) ==
    LET found == {i \in DOMAIN tasks : tasks[i].type = "outcome-comparator"}
    IN  IF found = {} THEN 0
        ELSE CHOOSE i \in found : \A j \in found : i <= j

\* main, lines 541-564: the index of the first outcome-comparator task
\* without started_at or started less than an hour ago, 0 if there is none
SelectTask(tasks) ==
    LET found == {i \in DOMAIN tasks :
                     /\ tasks[i].type = "outcome-comparator"
                     /\ \/ tasks[i].start = "none"
                        \/ /\ tasks[i].start = "iso"
                           /\ tasks[i].age < SecondsPerHour}
    IN  IF found = {} THEN 0
        ELSE CHOOSE i \in found : \A j \in found : i <= j

(* ---------------------------- initial state --------------------------- *)
\* Every path extract_clip can name for the alert being processed.
Paths(ts) ==
    {PartPath(i) : i \in 0 .. MaxChunks}
    \cup {ChunkPath(n) : n \in Files(ChunkStarts, StrayNames)}
    \cup {OutputPath(ts), ConcatPath(ts), TempConcatPath(ts),
          FaststartPath(ts), ThumbPath(ts)}

\* Every path of the local source directory.
SourcePaths == {SourcePath(n) : n \in Files(ChunkStarts, StrayNames)}

NoResult == <<None, None>>

NoRun == [outcome |-> "none"]

\* what a run of extract_clip did: the selection, the offset and duration
\* of every trim, the manifest, the return statement taken and the result
RunRecord ==
    [outcome |-> outcome,
     result |-> result,
     selected |-> selected_chunks,
     trims |-> SelectSeq(log, LAMBDA e : e.op = "trim"),
     manifest |-> manifest,
     clip |-> IF result[1] = None THEN "absent" ELSE fs[result[1]]]

\* locals of which the list of segment files survives from call to call
ResetLocalsKeepParts ==
    /\ window_start' = 0
    /\ window_end' = 0
    /\ all_chunks' = <<>>
    /\ selected_chunks' = <<>>
    /\ idx' = 0
    /\ part_files' = part_files
    /\ temp_files_to_cleanup' = <<>>
    /\ manifest' = <<>>
    /\ remux' = "none"
    /\ outcome' = "none"
    /\ result' = NoResult
    /\ log' = <<>>

\* the locals of extract_clip before the call
ResetLocals ==
    /\ window_start' = 0
    /\ window_end' = 0
    /\ all_chunks' = <<>>
    /\ selected_chunks' = <<>>
    /\ idx' = 0
    /\ part_files' = <<>>
    /\ temp_files_to_cleanup' = <<>>
    /\ manifest' = <<>>
    /\ remux' = "none"
    /\ outcome' = "none"
    /\ result' = NoResult
    /\ log' = <<>>

InitState ==
    /\ fs = [p \in Paths(alert_time) \cup SourcePaths |->
                 IF /\ local_source_dir
                    /\ \E n \in Files(source, strays) : p = SourcePath(n)
                 THEN "chunk" ELSE "absent"]
    /\ attempt = 0
    /\ fs0 = fs
    /\ retry_delay = retry_delay_seconds
    /\ sleeps = <<>>
    /\ s3_url = None
    /\ thumbnail_url = None
    /\ api_update = "none"
    /\ process_alert_result = <<>>
    /\ returns = {}
    /\ pc = "idle"
    /\ window_start = 0
    /\ window_end = 0
    /\ all_chunks = <<>>
    /\ selected_chunks = <<>>
    /\ idx = 0
    /\ part_files = <<>>
    /\ temp_files_to_cleanup = <<>>
    /\ manifest = <<>>
    /\ remux = "none"
    /\ outcome = "none"
    /\ result = NoResult
    /\ log = <<>>

\* main has not waited (--no-wait), was given no date cursor and has
\* fetched the alerts
Fetched ==
    /\ no_wait = TRUE
    /\ polls = 0
    /\ last_tasks = <<>>
    /\ last_status = "none"
    /\ date_cursor = FALSE
    /\ fetched = TRUE
    /\ exit_code = "none"

\* main is in its loop and has written PROCESSING for a batch of one alert
InLoop ==
    /\ Fetched
    /\ status_file = StatusFileContent(PROCESSING, 1, 0)
    /\ status_writes = <<<<PROCESSING, 1, 0>>>>

\* main is in process_alert for the only alert of its batch
InProcessAlert ==
    /\ alerts = <<Alert(TRUE, "iso", alert_time)>>
    /\ position = 0
    /\ successful = 0
    /\ failed = 0
    /\ invoked = <<1>>
    /\ main_pc = "process_alert"
    /\ run1 = NoRun
    /\ InLoop

\* Runs in which every tool, the network and the disk may fail.
Init ==
    /\ local_source_dir \in BOOLEAN
    /\ before_minutes \in {MaxMinutes, MaxMinutes + 1}
    /\ after_minutes \in {MaxMinutes - 1, MaxMinutes + 1}
    /\ chunk_duration_seconds = DefaultChunkDuration
    /\ max_retries \in 1 .. MaxRetries
    /\ retry_delay_seconds = DefaultRetryDelay
    /\ source \in SUBSET ChunkStarts
    /\ strays = {}
    /\ enum_order = SortedByName(Files(source, strays))
    /\ alert_time \in FaultAlertTimes
    /\ InitState
    /\ InProcessAlert

\* Runs over every content of the source and both enumeration orders, for
\* one alert and one attempt; everything may fail.
InitCatalog ==
    /\ local_source_dir \in BOOLEAN
    /\ before_minutes = MaxMinutes
    /\ after_minutes = MaxMinutes - 1
    /\ chunk_duration_seconds = DefaultChunkDuration
    /\ max_retries = 1
    /\ retry_delay_seconds = DefaultRetryDelay
    /\ source \in SUBSET ChunkStarts
    /\ strays \in SUBSET StrayNames
    /\ enum_order \in EnumOrders(local_source_dir, Files(source, strays))
    /\ alert_time = 290
    /\ InitState
    /\ InProcessAlert

\* Runs over every retry configuration, for one source and one alert;
\* everything may fail.
InitRetry ==
    /\ local_source_dir \in BOOLEAN
    /\ before_minutes = MaxMinutes
    /\ after_minutes = MaxMinutes - 1
    /\ chunk_duration_seconds = DefaultChunkDuration
    /\ max_retries \in 1 .. (MaxRetries + 1)
    /\ retry_delay_seconds \in RetryDelays
    /\ source = {0}
    /\ strays = {}
    /\ enum_order = SortedByName(Files(source, strays))
    /\ alert_time = 290
    /\ InitState
    /\ InProcessAlert

\* Runs of process_alert for an alert with or without id and with a
\* missing, unparseable or ISO alertDate; everything may fail.
InitAlertDate ==
    /\ local_source_dir \in BOOLEAN
    /\ before_minutes = MaxMinutes
    /\ after_minutes = MaxMinutes - 1
    /\ chunk_duration_seconds = DefaultChunkDuration
    /\ max_retries \in 1 .. MaxRetries
    /\ retry_delay_seconds = DefaultRetryDelay
    /\ source = ChunkStarts
    /\ strays = {}
    /\ enum_order = SortedByName(Files(source, strays))
    /\ alert_time \in FaultAlertTimes
    /\ InitState
    /\ alerts \in {<<a>> : a \in {k \in AlertKinds :
                                      k.date = "iso" => k.t = alert_time}}
    /\ position = 0
    /\ successful = 0
    /\ failed = 0
    /\ invoked = <<1>>
    /\ main_pc = "process_alert"
    /\ run1 = NoRun
    /\ InLoop

\* Runs in which everything may fail and extract_clip is run a second time
\* for the same alert, for one source and one alert.
InitRerunFault ==
    /\ local_source_dir \in BOOLEAN
    /\ before_minutes = MaxMinutes
    /\ after_minutes = MaxMinutes - 1
    /\ chunk_duration_seconds = DefaultChunkDuration
    /\ max_retries = 1
    /\ retry_delay_seconds = DefaultRetryDelay
    /\ source = {0}
    /\ strays = {}
    /\ enum_order = SortedByName(Files(source, strays))
    /\ alert_time = 290
    /\ InitState
    /\ InProcessAlert

\* Runs in which nothing fails and extract_clip is run a second time for
\* the same alert, over every source and alert instant.
InitRerun ==
    /\ local_source_dir \in BOOLEAN
    /\ before_minutes = MaxMinutes
    /\ after_minutes = MaxMinutes - 1
    /\ chunk_duration_seconds = DefaultChunkDuration
    /\ max_retries = 1
    /\ retry_delay_seconds = DefaultRetryDelay
    /\ source \in SUBSET ChunkStarts
    /\ strays = {}
    /\ enum_order = SortedByName(Files(source, strays))
    /\ alert_time \in AlertTimes
    /\ InitState
    /\ InProcessAlert

\* Runs of process_alert up to its return, for one source and one alert
\* instant, with 0 to MaxRetries attempts; everything may fail.
InitProcessAlert ==
    /\ local_source_dir \in BOOLEAN
    /\ before_minutes = MaxMinutes
    /\ after_minutes = MaxMinutes - 1
    /\ chunk_duration_seconds = DefaultChunkDuration
    /\ max_retries \in 0 .. MaxRetries
    /\ retry_delay_seconds = DefaultRetryDelay
    /\ source = {0}
    /\ strays = {}
    /\ enum_order = SortedByName(Files(source, strays))
    /\ alert_time = 290
    /\ InitState
    /\ alerts \in {<<Alert(id, date, alert_time)>> :
                      id \in BOOLEAN, date \in AlertDates}
    /\ position = 0
    /\ successful = 0
    /\ failed = 0
    /\ invoked = <<1>>
    /\ main_pc = "process_alert"
    /\ run1 = NoRun
    /\ InLoop

\* Runs of main from its start to the fetching of the alerts, without a
\* date cursor.
InitWait ==
    /\ local_source_dir = TRUE
    /\ before_minutes = MaxMinutes
    /\ after_minutes = MaxMinutes - 1
    /\ chunk_duration_seconds = DefaultChunkDuration
    /\ max_retries = 1
    /\ retry_delay_seconds = DefaultRetryDelay
    /\ source = ChunkStarts
    /\ strays = {}
    /\ enum_order = SortedByName(Files(source, strays))
    /\ alert_time = 290
    /\ InitState
    /\ alerts = <<>>
    /\ position = 0
    /\ successful = 0
    /\ failed = 0
    /\ invoked = <<>>
    /\ main_pc = "start"
    /\ run1 = NoRun
    /\ no_wait \in BOOLEAN
    /\ polls = 0
    /\ last_tasks = <<>>
    /\ last_status = "none"
    /\ date_cursor = FALSE
    /\ status_file = NoFile
    /\ status_writes = <<>>
    /\ fetched = FALSE
    /\ exit_code = "none"

\* Runs of main from the check of the status file on, the wait being over.
InitMain ==
    /\ local_source_dir \in BOOLEAN
    /\ before_minutes = MaxMinutes
    /\ after_minutes = MaxMinutes - 1
    /\ chunk_duration_seconds = DefaultChunkDuration
    /\ max_retries = 1
    /\ retry_delay_seconds = DefaultRetryDelay
    /\ source = ChunkStarts
    /\ strays = {}
    /\ enum_order = SortedByName(Files(source, strays))
    /\ alert_time = 290
    /\ InitState
    /\ alerts = <<>>
    /\ position = 0
    /\ successful = 0
    /\ failed = 0
    /\ invoked = <<>>
    /\ main_pc = "status_check"
    /\ run1 = NoRun
    /\ no_wait = TRUE
    /\ polls = 0
    /\ last_tasks = <<>>
    /\ last_status = "none"
    /\ date_cursor \in BOOLEAN
    /\ status_file \in InitialStatusFiles
    /\ status_writes = <<>>
    /\ fetched = FALSE
    /\ exit_code = "none"

\* write_status_file is called once, over whatever status file there is.
InitStatusFile ==
    /\ local_source_dir = TRUE
    /\ before_minutes = MaxMinutes
    /\ after_minutes = MaxMinutes - 1
    /\ chunk_duration_seconds = DefaultChunkDuration
    /\ max_retries = 1
    /\ retry_delay_seconds = DefaultRetryDelay
    /\ source = ChunkStarts
    /\ strays = {}
    /\ enum_order = SortedByName(Files(source, strays))
    /\ alert_time = 290
    /\ InitState
    /\ alerts = <<>>
    /\ position = 0
    /\ successful = 0
    /\ failed = 0
    /\ invoked = <<>>
    /\ main_pc = "status_manager"
    /\ run1 = NoRun
    /\ no_wait = TRUE
    /\ polls = 0
    /\ last_tasks = <<>>
    /\ last_status = "none"
    /\ date_cursor = FALSE
    /\ status_file \in InitialStatusFiles
    /\ status_writes = <<>>
    /\ fetched = FALSE
    /\ exit_code = "none"

\* Runs of main over every batch of alerts: the alerts have been fetched.
InitBatch ==
    /\ local_source_dir \in BOOLEAN
    /\ before_minutes = MaxMinutes
    /\ after_minutes = MaxMinutes - 1
    /\ chunk_duration_seconds = DefaultChunkDuration
    /\ max_retries = 1
    /\ retry_delay_seconds = DefaultRetryDelay
    /\ source = ChunkStarts
    /\ strays = {}
    /\ enum_order = SortedByName(Files(source, strays))
    /\ alert_time = 290
    /\ InitState
    /\ alerts \in Batches
    /\ position = 0
    /\ successful = 0
    /\ failed = 0
    /\ invoked = <<>>
    /\ main_pc = "fetched"
    /\ run1 = NoRun
    /\ Fetched
    /\ status_file = NoFile
    /\ status_writes = <<>>

\* Runs in which nothing fails, over every configuration and alert instant.
InitNoFault ==
    /\ local_source_dir \in BOOLEAN
    /\ before_minutes \in Margins
    /\ after_minutes \in Margins
    /\ chunk_duration_seconds \in ChunkDurations
    /\ max_retries = 1
    /\ retry_delay_seconds = DefaultRetryDelay
    /\ source \in SUBSET ChunkStarts
    /\ strays = {}
    /\ enum_order = SortedByName(Files(source, strays))
    /\ alert_time \in AlertTimes
    /\ InitState
    /\ InProcessAlert

(* ------------------------------ actions ------------------------------- *)
Ev(op, i, off, dur, res) ==
    [op |-> op, idx |-> i, offset |-> off, duration |-> dur, res |-> res]

\* the log entries of one kind of operation
Events(op) == {k \in DOMAIN log : log[k].op = op}

\* a return statement of extract_clip, after the file operations before it
Return(oc, res, f) ==
    /\ pc' = "returned"
    /\ outcome' = oc
    /\ result' = res
    /\ fs' = f
    /\ returns' = returns \cup {<<oc, res>>}

\* the alert main has handed to process_alert
CurrentAlert == alerts[position + 1]

\* the variables of the retry loop and the locals of extract_clip
retries == <<attempt, fs0, retry_delay, sleeps>>

locals == <<returns, window_start, window_end, all_chunks, selected_chunks,
            idx, part_files, temp_files_to_cleanup, manifest, remux, outcome,
            result, log>>

\* process_alert, 'return False, None, None'
Failure == <<FALSE, None, None>>

\* the URLs upload_file and upload_thumbnail build from the timestamp
VideoUrl(ts) == <<"video_url", ts>>
ThumbnailUrl(ts) == <<"thumbnail_url", ts>>

\* extract_clip, lines 297-307: fromisoformat of the alertDate without its
\* 'Z' succeeds: an ISO date, or an ISO date with a UTC offset followed by
\* 'Z'
ParsesInExtractClip(alert) == alert.date \in {"iso", "iso_offset_z"}

\* process_alert, line 76: fromisoformat of the alertDate with every 'Z'
\* replaced by '+00:00' succeeds; an offset followed by 'Z' becomes two
\* offsets, which is not an ISO date
ParsesInProcessAlert(alert) == alert.date = "iso"

\* process_alert, line 38: 'not alert_id or not alert_date'
HasRequiredFields(alert) == alert.id /\ alert.date # "missing"

\* process_alert, lines 32-40: an alert without id or alertDate is reported
\* as failed
RejectAlert ==
    /\ pc = "idle"
    /\ main_pc = "process_alert"
    /\ ~HasRequiredFields(CurrentAlert)
    /\ pc' = "rejected"
    /\ process_alert_result' = Failure
    /\ UNCHANGED <<config, outer, retries, s3_url, thumbnail_url, api_update,
                   fs, locals>>

\* a retry loop that sleeps the configured delay before every retry
CallExtractClipFixedDelay ==
    /\ pc \in {"idle", "returned"}
    /\ HasRequiredFields(CurrentAlert)
    /\ attempt < max_retries
    /\ result[1] = None
    /\ attempt' = attempt + 1
    /\ fs0' = fs
    /\ sleeps' = IF pc = "returned" THEN Append(sleeps, retry_delay_seconds)
                 ELSE sleeps
    /\ retry_delay' = retry_delay
    /\ pc' = "check_credentials"
    /\ ResetLocals
    /\ UNCHANGED <<config, outer, uploads, fs, returns>>

\* process_alert, lines 47-62: the first call of extract_clip, or, after a
\* call that returned no clip and was not the last attempt, the sleep, the
\* doubling of the delay and the next call
CallExtractClip ==
    /\ pc \in {"idle", "returned"}
    /\ HasRequiredFields(CurrentAlert)
    /\ attempt < max_retries
    /\ result[1] = None
    /\ attempt' = attempt + 1
    /\ fs0' = fs
    /\ sleeps' = IF pc = "returned" THEN Append(sleeps, retry_delay)
                 ELSE sleeps
    /\ retry_delay' = IF pc = "returned" THEN retry_delay * 2
                      ELSE retry_delay
    /\ pc' = "check_credentials"
    /\ ResetLocals
    /\ UNCHANGED <<config, outer, uploads, fs, returns>>

\* a credential check that is made for a local source directory too
CheckCredentialsAnyBackend(ok) ==
    /\ pc = "check_credentials"
    /\ IF ok
       THEN /\ pc' = "window"
            /\ UNCHANGED <<outcome, result, fs, returns>>
       ELSE Return("credentials", NoResult, fs)
    /\ UNCHANGED <<config, outer, caller, window_start, window_end,
                   all_chunks, selected_chunks, idx, part_files,
                   temp_files_to_cleanup, manifest, remux, log>>

\* extract_clip, lines 291-293, ClipExtractor._check_credentials
CheckCredentials(ok) ==
    /\ pc = "check_credentials"
    /\ local_source_dir => ok
    /\ IF ok
       THEN /\ pc' = "window"
            /\ UNCHANGED <<outcome, result, fs, returns>>
       ELSE Return("credentials", NoResult, fs)
    /\ UNCHANGED <<config, outer, caller, window_start, window_end, all_chunks,
                   selected_chunks, idx, part_files, temp_files_to_cleanup,
                   manifest, remux, log>>

\* extract_clip, lines 297-307: the alertDate is not an ISO date;
\* fromisoformat raises ValueError, the handler calls it again and the
\* exception leaves extract_clip and process_alert
ParseAlertTimeRaises ==
    /\ pc = "window"
    /\ ~ParsesInExtractClip(CurrentAlert)
    /\ pc' = "raised"
    /\ outcome' = "raised"
    /\ UNCHANGED <<config, outer, caller, fs, returns, window_start,
                   window_end, all_chunks, selected_chunks, idx, part_files,
                   temp_files_to_cleanup, manifest, remux, result, log>>

\* a window computed whatever the alertDate is
ComputeWindowAnyDate ==
    /\ pc = "window"
    /\ window_start' = alert_time - before_minutes * SecondsPerMinute
    /\ window_end' = alert_time + after_minutes * SecondsPerMinute
    /\ pc' = "list"
    /\ UNCHANGED <<config, outer, caller, fs, returns, all_chunks,
                   selected_chunks, idx, part_files, temp_files_to_cleanup,
                   manifest, remux, outcome, result, log>>

\* extract_clip, lines 297-315
ComputeWindow ==
    /\ pc = "window"
    /\ ParsesInExtractClip(CurrentAlert)
    /\ window_start' = alert_time - before_minutes * SecondsPerMinute
    /\ window_end' = alert_time + after_minutes * SecondsPerMinute
    /\ pc' = "list"
    /\ UNCHANGED <<config, outer, caller, fs, returns, all_chunks, selected_chunks,
                   idx, part_files, temp_files_to_cleanup, manifest, remux,
                   outcome, result, log>>

\* extract_clip, lines 319-323; a failed enumeration yields the empty list
ListChunks(ok) ==
    /\ pc = "list"
    /\ LET listed == ListedChunks(ok, enum_order, local_source_dir,
                                  chunk_duration_seconds)
       IN  /\ all_chunks' = listed
           /\ log' = Append(log, Ev("list", 0, 0, 0,
                                    IF ok THEN "ok" ELSE "error"))
           /\ IF listed = <<>>
              THEN Return("no_chunks", NoResult, fs)
              ELSE /\ pc' = "select"
                   /\ UNCHANGED <<outcome, result, fs, returns>>
    /\ UNCHANGED <<config, outer, caller, window_start, window_end,
                   selected_chunks, idx, part_files, temp_files_to_cleanup,
                   manifest, remux>>

\* extract_clip, lines 325-336
Select ==
    /\ pc = "select"
    /\ LET sel == SelectChunks(all_chunks, window_start, window_end)
       IN  /\ selected_chunks' = sel
           /\ IF sel = <<>>
              THEN Return("no_footage", NoResult, fs)
              ELSE /\ pc' = "chunk"
                   /\ UNCHANGED <<outcome, result, fs, returns>>
    /\ UNCHANGED <<config, outer, caller, window_start, window_end, all_chunks,
                   idx, part_files, temp_files_to_cleanup, manifest, remux,
                   log>>

\* the locals no step after the selection assigns
window == <<window_start, window_end, all_chunks, selected_chunks>>

\* a loop that registers the file it reads for cleanup with either backend
StartChunkRegisterSource ==
    /\ pc = "chunk"
    /\ LET chunk == selected_chunks[idx + 1]
       IN  IF local_source_dir
           THEN /\ temp_files_to_cleanup' =
                       temp_files_to_cleanup
                           \o <<PartPath(idx), SourcePath(chunk.name)>>
                /\ pc' = "trim"
           ELSE /\ temp_files_to_cleanup' =
                       temp_files_to_cleanup
                           \o <<PartPath(idx), ChunkPath(chunk.name)>>
                /\ pc' = "download"
    /\ UNCHANGED <<config, outer, caller, fs, returns, window, idx, part_files,
                   manifest, remux, outcome, result, log>>

\* extract_clip, lines 339-353: the paths of the next chunk are registered
\* for cleanup before anything is written to them; a local chunk is read
\* where it lies and is not registered
StartChunk ==
    /\ pc = "chunk"
    /\ LET chunk == selected_chunks[idx + 1]
       IN  IF local_source_dir
           THEN /\ temp_files_to_cleanup' =
                       Append(temp_files_to_cleanup, PartPath(idx))
                /\ pc' = "trim"
           ELSE /\ temp_files_to_cleanup' =
                       temp_files_to_cleanup
                           \o <<PartPath(idx), ChunkPath(chunk.name)>>
                /\ pc' = "download"
    /\ UNCHANGED <<config, outer, caller, fs, returns, window, idx, part_files,
                   manifest, remux, outcome, result, log>>

\* extract_clip, lines 355-358: s3_client.download_file succeeds
DownloadOk ==
    /\ pc = "download"
    /\ LET chunk == selected_chunks[idx + 1]
       IN  /\ fs' = [fs EXCEPT ![ChunkPath(chunk.name)] = "chunk"]
           /\ log' = Append(log, Ev("download", idx, 0, 0, "ok"))
    /\ pc' = "trim"
    /\ UNCHANGED <<config, outer, caller, returns, window, idx, part_files,
                   temp_files_to_cleanup, manifest, remux, outcome, result>>

\* a download failure after which the whole output directory is emptied
DownloadFailedEmptyDirectory(left) ==
    /\ pc = "download"
    /\ left \in {"absent", "partial"}
    /\ log' = Append(log, Ev("download", idx, 0, 0, "error"))
    /\ Return("download_failed", NoResult, [p \in DOMAIN fs |-> "absent"])
    /\ UNCHANGED <<config, outer, caller, window, idx, part_files,
                   temp_files_to_cleanup, manifest, remux>>

\* extract_clip, lines 359-362: download_file raises, leaving nothing or a
\* partial file
DownloadFailed(left) ==
    /\ pc = "download"
    /\ left \in {"absent", "partial"}
    /\ LET chunk == selected_chunks[idx + 1]
           f1 == [fs EXCEPT ![ChunkPath(chunk.name)] = left]
       IN  /\ log' = Append(log, Ev("download", idx, 0, 0, "error"))
           /\ Return("download_failed", NoResult,
                     CleanupTempFiles(f1, temp_files_to_cleanup))
    /\ UNCHANGED <<config, outer, caller, window, idx, part_files,
                   temp_files_to_cleanup, manifest, remux>>

\* extract_clip, lines 364-383 and 394: ffmpeg exits with status 0; the
\* segment file is whatever ffmpeg left (the code does not look at it)
TrimExit0(left) ==
    /\ pc = "trim"
    /\ left \in {"segment", "empty", "absent"}
    /\ LET chunk == selected_chunks[idx + 1]
           offset_seconds == OffsetSeconds(chunk, window_start)
           duration_seconds == DurationSeconds(chunk, window_start, window_end)
       IN  /\ log' = Append(log, Ev("trim", idx, offset_seconds,
                                    duration_seconds, "ok"))
           /\ fs' = [fs EXCEPT ![PartPath(idx)] = left]
    /\ part_files' = Append(part_files, PartPath(idx))
    /\ idx' = idx + 1
    /\ pc' = IF idx + 1 = Len(selected_chunks) THEN "manifest" ELSE "chunk"
    /\ UNCHANGED <<config, outer, caller, returns, window, temp_files_to_cleanup,
                   manifest, remux, outcome, result>>

\* a trim failure that is logged and skipped over instead of aborting
TrimFailedContinue(res, left) ==
    /\ pc = "trim"
    /\ res \in {"nonzero", "timeout", "error"}
    /\ left \in {"absent", "empty", "partial"}
    /\ LET chunk == selected_chunks[idx + 1]
       IN  /\ log' = Append(log, Ev("trim", idx,
                                    OffsetSeconds(chunk, window_start),
                                    DurationSeconds(chunk, window_start,
                                                    window_end), res))
           /\ fs' = [fs EXCEPT ![PartPath(idx)] = left]
    /\ idx' = idx + 1
    /\ pc' = IF idx + 1 = Len(selected_chunks) THEN "manifest" ELSE "chunk"
    /\ UNCHANGED <<config, outer, caller, returns, window, part_files,
                   temp_files_to_cleanup, manifest, remux, outcome, result>>

\* extract_clip, lines 384-392 (CalledProcessError, TimeoutExpired) and
\* 482-486 (any other exception of subprocess.run)
TrimFailed(res, left) ==
    /\ pc = "trim"
    /\ res \in {"nonzero", "timeout", "error"}
    /\ left \in {"absent", "empty", "partial"}
    /\ LET chunk == selected_chunks[idx + 1]
           offset_seconds == OffsetSeconds(chunk, window_start)
           duration_seconds == DurationSeconds(chunk, window_start, window_end)
           f1 == [fs EXCEPT ![PartPath(idx)] = left]
       IN  /\ log' = Append(log, Ev("trim", idx, offset_seconds,
                                    duration_seconds, res))
           /\ Return(CASE res = "nonzero" -> "trim_failed"
                       [] res = "timeout" -> "trim_timeout"
                       [] OTHER -> "exception",
                     NoResult, CleanupTempFiles(f1, temp_files_to_cleanup))
    /\ UNCHANGED <<config, outer, caller, window, idx, part_files,
                   temp_files_to_cleanup, manifest, remux>>

\* a manifest that lists the segments last to first
WriteManifestReversed ==
    /\ pc = "manifest"
    /\ temp_files_to_cleanup' =
           Append(temp_files_to_cleanup, ConcatPath(alert_time))
    /\ manifest' = Reverse(part_files)
    /\ fs' = [fs EXCEPT ![ConcatPath(alert_time)] = "manifest"]
    /\ log' = Append(log, Ev("manifest", 0, 0, 0, "ok"))
    /\ pc' = "concat"
    /\ UNCHANGED <<config, outer, caller, returns, window, idx, part_files,
                   remux, outcome, result>>

\* extract_clip, lines 402-413: the concat file is registered, then written
\* with one line per part file
WriteManifest ==
    /\ pc = "manifest"
    /\ temp_files_to_cleanup' =
           Append(temp_files_to_cleanup, ConcatPath(alert_time))
    /\ manifest' = part_files
    /\ fs' = [fs EXCEPT ![ConcatPath(alert_time)] = "manifest"]
    /\ log' = Append(log, Ev("manifest", 0, 0, 0, "ok"))
    /\ pc' = "concat"
    /\ UNCHANGED <<config, outer, caller, returns, window, idx, part_files, remux,
                   outcome, result>>

\* extract_clip, lines 409-413 raise (disk full, permission) and 482-486
WriteManifestFailed(left) ==
    /\ pc = "manifest"
    /\ left \in {"absent", "partial"}
    /\ LET files == Append(temp_files_to_cleanup, ConcatPath(alert_time))
           f1 == [fs EXCEPT ![ConcatPath(alert_time)] = left]
       IN  /\ temp_files_to_cleanup' = files
           /\ log' = Append(log, Ev("manifest", 0, 0, 0, "error"))
           /\ Return("exception", NoResult, CleanupTempFiles(f1, files))
    /\ UNCHANGED <<config, outer, caller, window, idx, part_files, manifest, remux>>

\* extract_clip, lines 417-429 and 440-444: ffmpeg concat exits with status
\* 0, then the concatenated file is verified
ConcatExit0(left) ==
    /\ pc = "concat"
    /\ left \in {"concat", "empty", "absent"}
    /\ LET files == Append(temp_files_to_cleanup, TempConcatPath(alert_time))
           f1 == [fs EXCEPT ![TempConcatPath(alert_time)] = left]
       IN  /\ temp_files_to_cleanup' = files
           /\ log' = Append(log, Ev("concat", 0, 0, 0, "ok"))
           /\ IF ~Exists(f1, TempConcatPath(alert_time))
                 \/ f1[TempConcatPath(alert_time)] = "empty"
              THEN Return("concat_empty", NoResult,
                          CleanupTempFiles(f1, files))
              ELSE /\ pc' = "optimize"
                   /\ fs' = f1
                   /\ UNCHANGED <<outcome, result, returns>>
    /\ UNCHANGED <<config, outer, caller, window, idx, part_files, manifest, remux>>

\* a concatenation that is run once more after a timeout
ConcatFailedRetryTimeout(res, left) ==
    /\ pc = "concat"
    /\ res \in {"nonzero", "timeout", "error"}
    /\ left \in {"absent", "empty", "partial"}
    /\ LET files == Append(temp_files_to_cleanup, TempConcatPath(alert_time))
           f1 == [fs EXCEPT ![TempConcatPath(alert_time)] = left]
           again == res = "timeout" /\ Events("concat") = {}
       IN  /\ log' = Append(log, Ev("concat", 0, 0, 0, res))
           /\ IF again
              THEN /\ fs' = f1
                   /\ UNCHANGED <<pc, outcome, result, returns,
                                  temp_files_to_cleanup>>
              ELSE /\ temp_files_to_cleanup' = files
                   /\ Return(CASE res = "nonzero" -> "concat_failed"
                               [] res = "timeout" -> "concat_timeout"
                               [] OTHER -> "exception",
                             NoResult, CleanupTempFiles(f1, files))
    /\ UNCHANGED <<config, outer, caller, window, idx, part_files, manifest, remux>>

\* extract_clip, lines 430-438 (CalledProcessError, TimeoutExpired) and
\* 482-486 (any other exception)
ConcatFailed(res, left) ==
    /\ pc = "concat"
    /\ res \in {"nonzero", "timeout", "error"}
    /\ left \in {"absent", "empty", "partial"}
    /\ LET files == Append(temp_files_to_cleanup, TempConcatPath(alert_time))
           f1 == [fs EXCEPT ![TempConcatPath(alert_time)] = left]
       IN  /\ temp_files_to_cleanup' = files
           /\ log' = Append(log, Ev("concat", 0, 0, 0, res))
           /\ Return(CASE res = "nonzero" -> "concat_failed"
                       [] res = "timeout" -> "concat_timeout"
                       [] OTHER -> "exception",
                     NoResult, CleanupTempFiles(f1, files))
    /\ UNCHANGED <<config, outer, caller, window, idx, part_files, manifest, remux>>

\* ensure_browser_playable_mp4, lines 27-54: the faststart remux writes
\* <video_path>.temp.mp4 and exits with status 0 or not, or subprocess.run
\* raises another exception
Remux(res, left) ==
    /\ pc = "optimize"
    /\ \/ res = "ok" /\ left \in {"faststart", "empty", "absent"}
       \/ res \in {"nonzero", "error"}
          /\ left \in {"absent", "empty", "partial"}
    /\ remux' = res
    /\ fs' = [fs EXCEPT ![FaststartPath(alert_time)] = left]
    /\ log' = Append(log, Ev("remux", 0, 0, 0, res))
    /\ pc' = "optimized"
    /\ UNCHANGED <<config, outer, caller, returns, window, idx, part_files,
                   temp_files_to_cleanup, manifest, outcome, result>>

\* os.replace(src, dst)
Replace(f, src, dst) == [f EXCEPT ![dst] = f[src], ![src] = "absent"]

\* a remux whose output replaces the video however ffmpeg ended
AfterRemuxAlwaysReplace(f, res, ts) ==
    IF Exists(f, FaststartPath(ts))
    THEN Replace(f, FaststartPath(ts), TempConcatPath(ts))
    ELSE f

\* ensure_browser_playable_mp4, lines 56-72: the remuxed file replaces the
\* video, or is removed when ffmpeg failed
AfterRemux(f, res, ts) ==
    IF res = "ok"
    THEN IF Exists(f, FaststartPath(ts))
         THEN Replace(f, FaststartPath(ts), TempConcatPath(ts))
         ELSE f
    ELSE [f EXCEPT ![FaststartPath(ts)] = "absent"]

\* extract_clip, lines 450-459: the concatenated file, optimized or not,
\* becomes the output file
MoveToOutput(f, ts) ==
    IF Exists(f, TempConcatPath(ts))
    THEN Replace(f, TempConcatPath(ts), OutputPath(ts))
    ELSE f

\* extract_clip, lines 448-465: the rest of the optimization step (with the
\* warning of line 457 when the remux raised) and the verification of the
\* final output file
FinishOptimize ==
    /\ pc = "optimized"
    /\ log' = IF remux = "ok" THEN log
              ELSE Append(log, Ev("warning", 0, 0, 0, "non_optimized"))
    /\ LET f1 == AfterRemux(fs, remux, alert_time)
           f2 == MoveToOutput(f1, alert_time)
       IN  IF ~Exists(f2, OutputPath(alert_time))
              \/ f2[OutputPath(alert_time)] = "empty"
           THEN Return("final_empty", NoResult,
                       CleanupTempFiles(f2, temp_files_to_cleanup))
           ELSE /\ pc' = "thumbnail"
                /\ fs' = f2
                /\ UNCHANGED <<outcome, result, returns>>
    /\ UNCHANGED <<config, outer, caller, window, idx, part_files,
                   temp_files_to_cleanup, manifest, remux>>

\* list.remove(x) guarded by "x in list"
RemoveIfPresent(files, x) ==
    IF \E i \in DOMAIN files : files[i] = x
    THEN LET k == CHOOSE i \in DOMAIN files :
                      files[i] = x /\ \A j \in 1 .. (i - 1) : files[j] # x
         IN  SubSeq(files, 1, k - 1) \o SubSeq(files, k + 1, Len(files))
    ELSE files

\* extract_clip, lines 473-478: what the final cleanup deletes
FinalCleanupList(files, output_file, thumbnail_file) ==
    LET l1 == RemoveIfPresent(files, output_file)
    IN  IF thumbnail_file # None THEN RemoveIfPresent(l1, thumbnail_file)
        ELSE l1

\* a thumbnail step whose failure aborts the extraction
ThumbnailFatal(res, left) ==
    /\ pc = "thumbnail"
    /\ \/ res = "ok" /\ left \in {"jpeg", "empty", "absent"}
       \/ res \in {"nonzero", "timeout", "error"}
          /\ left \in {"absent", "empty", "partial"}
    /\ LET f1 == [fs EXCEPT ![ThumbPath(alert_time)] = left]
           made == res = "ok" /\ NonEmpty(f1, ThumbPath(alert_time))
           files == IF made
                    THEN FinalCleanupList(temp_files_to_cleanup,
                                          OutputPath(alert_time),
                                          ThumbPath(alert_time))
                    ELSE Append(temp_files_to_cleanup,
                                OutputPath(alert_time))
       IN  /\ temp_files_to_cleanup' = files
           /\ log' = Append(log, Ev("thumbnail", 0, 0, 0, res))
           /\ IF made
              THEN Return("ok", <<OutputPath(alert_time),
                                  ThumbPath(alert_time)>>,
                          CleanupTempFiles(f1, files))
              ELSE Return("exception", NoResult,
                          CleanupTempFiles(f1, files))
    /\ UNCHANGED <<config, outer, caller, window, idx, part_files, manifest, remux>>

\* _generate_thumbnail, lines 245-279, and extract_clip, lines 470-480
Thumbnail(res, left) ==
    /\ pc = "thumbnail"
    /\ \/ res = "ok" /\ left \in {"jpeg", "empty", "absent"}
       \/ res \in {"nonzero", "timeout", "error"}
          /\ left \in {"absent", "empty", "partial"}
    /\ LET f1 == [fs EXCEPT ![ThumbPath(alert_time)] = left]
           thumbnail_file ==
               IF res = "ok" /\ NonEmpty(f1, ThumbPath(alert_time))
               THEN ThumbPath(alert_time) ELSE None
           files == FinalCleanupList(temp_files_to_cleanup,
                                     OutputPath(alert_time), thumbnail_file)
       IN  /\ temp_files_to_cleanup' = files
           /\ log' = Append(log, Ev("thumbnail", 0, 0, 0, res))
           /\ Return("ok", <<OutputPath(alert_time), thumbnail_file>>,
                     CleanupTempFiles(f1, files))
    /\ UNCHANGED <<config, outer, caller, window, idx, part_files, manifest, remux>>

\* s3_uploader.cleanup_local_file
RemoveFile(f, p) == IF p = None THEN f ELSE [f EXCEPT ![p] = "absent"]

\* a retry loop that gives up after the first attempt that returned no clip
ExtractionFailedGiveUpEarly ==
    /\ pc \in {"idle", "returned"}
    /\ main_pc = "process_alert"
    /\ HasRequiredFields(CurrentAlert)
    /\ result[1] = None
    /\ attempt >= Min(max_retries, 1)
    /\ pc' = "done"
    /\ process_alert_result' = Failure
    /\ UNCHANGED <<config, outer, retries, s3_url, thumbnail_url, api_update,
                   fs, locals>>

\* process_alert, lines 49 and 63-72: the last attempt returned no clip, or
\* max_retries is 0 and the loop body never ran
ExtractionFailed ==
    /\ pc \in {"idle", "returned"}
    /\ main_pc = "process_alert"
    /\ HasRequiredFields(CurrentAlert)
    /\ result[1] = None
    /\ attempt >= max_retries
    /\ pc' = "done"
    /\ process_alert_result' = Failure
    /\ UNCHANGED <<config, outer, retries, s3_url, thumbnail_url, api_update,
                   fs, locals>>

\* process_alert, lines 75-86: the alertDate extract_clip could parse is not
\* parsed here; the clip and the thumbnail stay where they are
ParseDateFailed ==
    /\ pc = "returned"
    /\ result[1] # None
    /\ ~ParsesInProcessAlert(CurrentAlert)
    /\ pc' = "done"
    /\ process_alert_result' = Failure
    /\ UNCHANGED <<config, outer, retries, s3_url, thumbnail_url, api_update,
                   fs, locals>>

\* process_alert, lines 88-98: the upload of the clip; after a failed
\* upload the clip and the thumbnail are removed
UploadVideo(ok) ==
    /\ pc = "returned"
    /\ result[1] # None
    /\ ParsesInProcessAlert(CurrentAlert)
    /\ IF ok
       THEN /\ s3_url' = VideoUrl(alert_time)
            /\ pc' = "upload_thumbnail"
            /\ UNCHANGED <<fs, process_alert_result>>
       ELSE /\ s3_url' = None
            /\ fs' = RemoveFile(RemoveFile(fs, result[1]), result[2])
            /\ pc' = "done"
            /\ process_alert_result' = Failure
    /\ UNCHANGED <<config, outer, retries, thumbnail_url, api_update, locals>>

\* a thumbnail upload whose failure fails the alert
UploadThumbnailFatal(ok) ==
    /\ pc = "upload_thumbnail"
    /\ result[2] = None => ~ok
    /\ thumbnail_url' = IF ok THEN ThumbnailUrl(alert_time) ELSE None
    /\ IF ok
       THEN /\ pc' = "update_api"
            /\ UNCHANGED process_alert_result
       ELSE /\ pc' = "done"
            /\ process_alert_result' = Failure
    /\ UNCHANGED <<config, outer, retries, s3_url, api_update, fs, locals>>

\* process_alert, lines 100-109: the thumbnail, if there is one, is
\* uploaded; without a thumbnail or after a failed upload thumbnail_url is
\* None and process_alert goes on
UploadThumbnail(ok) ==
    /\ pc = "upload_thumbnail"
    /\ result[2] = None => ~ok
    /\ thumbnail_url' = IF ok THEN ThumbnailUrl(alert_time) ELSE None
    /\ pc' = "update_api"
    /\ UNCHANGED <<config, outer, retries, s3_url, api_update,
                   process_alert_result, fs, locals>>

\* an API update after which the local files are kept in every case
UpdateApiKeepFiles(ok) ==
    /\ pc = "update_api"
    /\ api_update' = IF ok THEN "ok" ELSE "error"
    /\ process_alert_result' =
           IF ok THEN <<TRUE, s3_url, thumbnail_url>> ELSE Failure
    /\ pc' = "done"
    /\ UNCHANGED <<config, outer, retries, s3_url, thumbnail_url, fs, locals>>

\* process_alert, lines 111-129: update_secondary_video returns, and the
\* clip and the thumbnail are removed, or it raises, and they are kept
UpdateApi(ok) ==
    /\ pc = "update_api"
    /\ api_update' = IF ok THEN "ok" ELSE "error"
    /\ fs' = IF ok THEN RemoveFile(RemoveFile(fs, result[1]), result[2])
             ELSE fs
    /\ process_alert_result' =
           IF ok THEN <<TRUE, s3_url, thumbnail_url>> ELSE Failure
    /\ pc' = "done"
    /\ UNCHANGED <<config, outer, retries, s3_url, thumbnail_url, locals>>

\* process_alert is run again for the same alert after an earlier run of it
\* ended: the earlier run removed the clip and the thumbnail (lines 95-97,
\* 122-124) or kept them (lines 126-129)
Rerun(kept) ==
    /\ pc = "returned"
    /\ run1 = NoRun
    /\ run1' = RunRecord
    /\ fs' = IF kept THEN fs
             ELSE RemoveFile(RemoveFile(fs, result[1]), result[2])
    /\ fs0' = fs'
    /\ attempt' = 1
    /\ retry_delay' = retry_delay_seconds
    /\ sleeps' = <<>>
    /\ returns' = {}
    /\ pc' = "check_credentials"
    /\ ResetLocals
    /\ UNCHANGED <<config, uploads, alerts, position, successful, failed,
                   invoked, main_pc, waiting, progress>>

\* the variables of process_alert and extract_clip
inner == <<fs, attempt, returns, fs0, retry_delay, sleeps, uploads, pc,
           window_start, window_end, all_chunks, selected_chunks, idx,
           part_files, temp_files_to_cleanup, manifest, remux, outcome,
           result, log>>

\* write_status_file, lines 40-49
write_status_file(status, total_count, processed_count) ==
    /\ status_file' = StatusFileContent(status, total_count, processed_count)
    /\ status_writes' =
           Append(status_writes, <<status, total_count, processed_count>>)

\* write_status_file called with any status string and counts
CallWriteStatusFile(status, total_count, processed_count) ==
    /\ main_pc = "status_manager"
    /\ Len(status_writes) < 1
    /\ write_status_file(status, total_count, processed_count)
    /\ UNCHANGED <<alerts, position, successful, failed, invoked, main_pc,
                   run1, waiting, date_cursor, fetched, exit_code>>
    /\ UNCHANGED <<config, inner>>

\* main, lines 524-529 and 610-611: with --no-wait the wait is skipped
Start ==
    /\ main_pc = "start"
    /\ main_pc' = IF no_wait THEN "status_check" ELSE "wait"
    /\ UNCHANGED <<alerts, position, successful, failed, invoked, run1,
                   waiting, progress>>
    /\ UNCHANGED <<config, inner>>

\* main, lines 530-532 and 603-609: get_tasks raises, or what it returned
\* is not a dictionary; the round is over
PollTasksFailed ==
    /\ main_pc = "wait"
    /\ polls < MaxPolls
    /\ polls' = polls + 1
    /\ last_tasks' = <<>>
    /\ last_status' = "none"
    /\ UNCHANGED <<alerts, position, successful, failed, invoked, main_pc,
                   run1, no_wait, progress>>
    /\ UNCHANGED <<config, inner>>

\* main, lines 530-581 and 596-601: get_tasks returns a task list.  Without
\* a task to look at the round is over; a completed task ends the wait; for
\* any other status the task status endpoint is asked next, unless the task
\* has no task_id (task_id[:8] raises TypeError, caught at line 603)
PollTasks(tasks) ==
    /\ main_pc = "wait"
    /\ polls < MaxPolls
    /\ polls' = polls + 1
    /\ last_tasks' = tasks
    /\ last_status' = "none"
    /\ LET k == SelectTask(tasks)
       IN  main_pc' = IF k = 0 THEN "wait"
                      ELSE IF tasks[k].status = "completed"
                      THEN "status_check"
                      ELSE IF tasks[k].id THEN "task_status"
                      ELSE "wait"
    /\ UNCHANGED <<alerts, position, successful, failed, invoked, run1,
                   no_wait, progress>>
    /\ UNCHANGED <<config, inner>>

\* main, lines 582-595: get_task_status answers completed, which ends the
\* wait, or anything else, or raises, which ends the round
PollTaskStatus(answer) ==
    /\ main_pc = "task_status"
    /\ last_status' = answer
    /\ main_pc' = IF answer = "completed" THEN "status_check" ELSE "wait"
    /\ UNCHANGED <<alerts, position, successful, failed, invoked, run1,
                   no_wait, polls, last_tasks, progress>>
    /\ UNCHANGED <<config, inner>>

\* main, lines 661-683: with a date cursor main goes on only if the status
\* read from the status file is None, empty or EMPTY
CheckStatusFile ==
    /\ main_pc = "status_check"
    /\ LET status == read_status_file(status_file)[1]
       IN  IF date_cursor /\ Truthy(status) /\ status # EMPTY
           THEN /\ main_pc' = "exited"
                /\ exit_code' = "0"
           ELSE /\ main_pc' = "fetch"
                /\ UNCHANGED exit_code
    /\ UNCHANGED <<alerts, position, successful, failed, invoked, run1,
                   waiting, date_cursor, status_file, status_writes,
                   fetched>>
    /\ UNCHANGED <<config, inner>>

\* main, lines 685-691: get_alerts raises
FetchAlertsFailed ==
    /\ main_pc = "fetch"
    /\ fetched' = TRUE
    /\ main_pc' = "exited"
    /\ exit_code' = "1"
    /\ UNCHANGED <<alerts, position, successful, failed, invoked, run1,
                   waiting, date_cursor, status_file, status_writes>>
    /\ UNCHANGED <<config, inner>>

\* main, lines 685-696: get_alerts returns the batch; without alerts EMPTY
\* is written and main exits
FetchAlerts(batch) ==
    /\ main_pc = "fetch"
    /\ fetched' = TRUE
    /\ alerts' = batch
    /\ IF batch = <<>>
       THEN /\ write_status_file(EMPTY, NoCount, NoCount)
            /\ main_pc' = "exited"
            /\ exit_code' = "0"
       ELSE /\ main_pc' = "fetched"
            /\ UNCHANGED <<status_file, status_writes, exit_code>>
    /\ UNCHANGED <<position, successful, failed, invoked, run1, waiting,
                   date_cursor>>
    /\ UNCHANGED <<config, inner>>

\* main, lines 698-724: PROCESSING is written with the number of alerts and
\* the batch is sorted by alertDate, oldest first
SortAlerts ==
    /\ main_pc = "fetched"
    /\ write_status_file(PROCESSING, Len(alerts), 0)
    /\ alerts' = SortByDate(alerts)
    /\ main_pc' = "loop"
    /\ UNCHANGED <<position, successful, failed, invoked, run1, waiting,
                   date_cursor, fetched, exit_code>>
    /\ UNCHANGED <<config, inner>>

\* a loop that updates the status file after the alerts that succeeded only
ProcessAlertStatusOnSuccess(creds, clip, upload, api) ==
    /\ main_pc = "loop"
    /\ position < Len(alerts)
    /\ invoked' = Append(invoked, position + 1)
    /\ LET res == ProcessAlertResult(alerts[position + 1],
                                     local_source_dir \/ creds, clip,
                                     upload, api)
       IN  IF res = "raise"
           THEN /\ main_pc' = "crashed"
                /\ exit_code' = "1"
                /\ UNCHANGED <<position, successful, failed, status_file,
                               status_writes>>
           ELSE /\ successful' =
                       successful + (IF res = "success" THEN 1 ELSE 0)
                /\ failed' = failed + (IF res = "success" THEN 0 ELSE 1)
                /\ position' = position + 1
                /\ IF res = "success"
                   THEN write_status_file(PROCESSING, Len(alerts),
                                          successful' + failed')
                   ELSE UNCHANGED <<status_file, status_writes>>
                /\ UNCHANGED <<main_pc, exit_code>>
    /\ UNCHANGED <<alerts, run1, waiting, date_cursor, fetched>>
    /\ UNCHANGED <<config, inner>>

\* main, lines 734-759: one iteration of the loop over the batch; after an
\* alert that succeeded or failed the status file is updated; an exception
\* that leaves process_alert ends main with a traceback and exit code 1
ProcessAlert(creds, clip, upload, api) ==
    /\ main_pc = "loop"
    /\ position < Len(alerts)
    /\ invoked' = Append(invoked, position + 1)
    /\ LET res == ProcessAlertResult(alerts[position + 1],
                                     local_source_dir \/ creds, clip,
                                     upload, api)
       IN  IF res = "raise"
           THEN /\ main_pc' = "crashed"
                /\ exit_code' = "1"
                /\ UNCHANGED <<position, successful, failed, status_file,
                               status_writes>>
           ELSE /\ successful' =
                       successful + (IF res = "success" THEN 1 ELSE 0)
                /\ failed' = failed + (IF res = "success" THEN 0 ELSE 1)
                /\ position' = position + 1
                /\ write_status_file(PROCESSING, Len(alerts),
                                     successful' + failed')
                /\ UNCHANGED <<main_pc, exit_code>>
    /\ UNCHANGED <<alerts, run1, waiting, date_cursor, fetched>>
    /\ UNCHANGED <<config, inner>>

\* main, lines 761-782: the loop is over; FINISHED is written and main
\* exits with 1 if an alert failed
FinishBatch ==
    /\ main_pc = "loop"
    /\ position = Len(alerts)
    /\ write_status_file(FINISHED, Len(alerts), successful + failed)
    /\ main_pc' = "finished"
    /\ exit_code' = IF failed > 0 THEN "1" ELSE "0"
    /\ UNCHANGED <<alerts, position, successful, failed, invoked, run1,
                   waiting, date_cursor, fetched>>
    /\ UNCHANGED <<config, inner>>

(* --------------------------- specifications --------------------------- *)
Next ==
    \/ CallExtractClip
    \/ \E ok \in BOOLEAN : CheckCredentials(ok)
    \/ ComputeWindow
    \/ \E ok \in BOOLEAN : ListChunks(ok)
    \/ Select
    \/ StartChunk
    \/ DownloadOk
    \/ \E left \in Contents : DownloadFailed(left)
    \/ \E left \in Contents : TrimExit0(left)
    \/ \E res \in {"nonzero", "timeout", "error"}, left \in Contents :
           TrimFailed(res, left)
    \/ WriteManifest
    \/ \E left \in Contents : WriteManifestFailed(left)
    \/ \E left \in Contents : ConcatExit0(left)
    \/ \E res \in {"nonzero", "timeout", "error"}, left \in Contents :
           ConcatFailed(res, left)
    \/ \E res \in {"ok", "nonzero", "error"}, left \in Contents :
           Remux(res, left)
    \/ FinishOptimize
    \/ \E res \in {"ok", "nonzero", "timeout", "error"}, left \in Contents :
           Thumbnail(res, left)

Spec == Init /\ [][Next]_vars

SpecCatalog == InitCatalog /\ [][Next]_vars

SpecRetry == InitRetry /\ [][Next]_vars

NextAlertDate ==
    \/ Next
    \/ RejectAlert
    \/ ParseAlertTimeRaises

SpecAlertDate == InitAlertDate /\ [][NextAlertDate]_vars

NextProcessAlert ==
    \/ NextAlertDate
    \/ ExtractionFailed
    \/ ParseDateFailed
    \/ \E ok \in BOOLEAN : UploadVideo(ok)
    \/ \E ok \in BOOLEAN : UploadThumbnail(ok)
    \/ \E ok \in BOOLEAN : UpdateApi(ok)

SpecProcessAlert == InitProcessAlert /\ [][NextProcessAlert]_vars

\* every call process_alert makes is blocking and bounded by a timeout, so a
\* step that can be taken is taken
SpecProcessAlertFair == SpecProcessAlert /\ WF_vars(NextProcessAlert)

\* the steps of a run in which no tool, network or disk operation fails
NextNoFault ==
    \/ CallExtractClip
    \/ CheckCredentials(TRUE)
    \/ ComputeWindow
    \/ ListChunks(TRUE)
    \/ Select
    \/ StartChunk
    \/ DownloadOk
    \/ TrimExit0("segment")
    \/ WriteManifest
    \/ ConcatExit0("concat")
    \/ Remux("ok", "faststart")
    \/ FinishOptimize
    \/ Thumbnail("ok", "jpeg")

SpecNoFault == InitNoFault /\ [][NextNoFault]_vars

NextRerun ==
    \/ NextNoFault
    \/ \E kept \in BOOLEAN : Rerun(kept)

SpecRerun == InitRerun /\ [][NextRerun]_vars

NextRerunFault ==
    \/ Next
    \/ \E kept \in BOOLEAN : Rerun(kept)

SpecRerunFault == InitRerunFault /\ [][NextRerunFault]_vars

NextBatch ==
    \/ SortAlerts
    \/ \E creds, clip, upload, api \in BOOLEAN :
           ProcessAlert(creds, clip, upload, api)
    \/ FinishBatch

SpecBatch == InitBatch /\ [][NextBatch]_vars

NextWait ==
    \/ Start
    \/ PollTasksFailed
    \/ \E tasks \in TaskLists : PollTasks(tasks)
    \/ \E answer \in {"completed", "running", "error"} :
           PollTaskStatus(answer)
    \/ CheckStatusFile
    \/ FetchAlertsFailed
    \/ FetchAlerts(<<>>)
    \/ FetchAlerts(<<Alert(TRUE, "iso", alert_time)>>)

SpecWait == InitWait /\ [][NextWait]_vars

NextMain ==
    \/ CheckStatusFile
    \/ FetchAlertsFailed
    \/ \E batch \in Batches \cup {<<>>} : FetchAlerts(batch)
    \/ NextBatch

SpecMain == InitMain /\ [][NextMain]_vars

NextStatusFile ==
    \E status \in StatusStrings, total_count, processed_count \in Counts :
        CallWriteStatusFile(status, total_count, processed_count)

SpecStatusFile == InitStatusFile /\ [][NextStatusFile]_vars

(* ------------------------------- claims ------------------------------- *)
Returned == pc = "returned"

\* a download or a trim of the current call failed
ChunkFailure(k) ==
    /\ k \in DOMAIN log
    /\ log[k].op \in {"download", "trim"}
    /\ log[k].res # "ok"

ChunkFailed == \E k \in DOMAIN log : ChunkFailure(k)

\* C1: all-or-nothing extraction.  A non-null clip is returned only if the
\* trim (and, with S3, the download) of every selected chunk succeeded; once
\* the download or the trim of chunk i has failed, nothing more is done: no
\* later chunk is downloaded or trimmed, no manifest is written, no
\* concatenation is run, and the call returns the null artifact.
C1_AllOrNothing ==
    /\ (Returned /\ result[1] # None) =>
           \A i \in 0 .. (Len(selected_chunks) - 1) :
               /\ \E k \in Events("trim") :
                      log[k].idx = i /\ log[k].res = "ok"
               /\ ~local_source_dir =>
                      \E k \in Events("download") :
                          log[k].idx = i /\ log[k].res = "ok"
    /\ \A k \in DOMAIN log :
           ChunkFailure(k) =>
               /\ k = Len(log)
               /\ \A j \in DOMAIN log : log[j].idx <= log[k].idx
               /\ Events("manifest") = {}
               /\ Events("concat") = {}
               /\ manifest = <<>>
               /\ ~Exists(fs, ConcatPath(alert_time))
               /\ Returned
               /\ result = NoResult

\* the trim of the second chunk timed out after the first chunk went through
C1_Witness ==
    /\ Returned
    /\ \E k \in Events("trim") : log[k].idx = 1 /\ log[k].res = "timeout"
    /\ \E k \in Events("trim") : log[k].idx = 0 /\ log[k].res = "ok"

C3_OnlyArtifactSurvives ==
    (Returned /\ outcome = "ok") =>
        \A p \in Paths(alert_time) :
            Exists(fs, p) => (p = result[1] \/ p = result[2])

\* C4: on every aborting path taken after a scratch file was registered,
\* every file the call has created (chunk copies, segments, manifest,
\* concatenated temp file, output file) is deleted and the result is
\* (None, None).
C4_AbortDeletesEverything ==
    (Returned /\ outcome # "ok" /\ temp_files_to_cleanup # <<>>) =>
        /\ result = NoResult
        /\ \A p \in DOMAIN fs : Exists(fs, p) => fs0[p] = fs[p]

\* the window has been computed / the selection has been made
WindowDone ==
    /\ pc \notin {"idle", "check_credentials", "window", "rejected", "raised"}
    /\ outcome # "credentials"

SelectionDone ==
    /\ WindowDone
    /\ pc \notin {"list", "select"}
    /\ outcome # "no_chunks"

\* C5: window selection is the half-open interval intersection: a listed
\* chunk c is selected iff NOT (c.E <= window_start OR c.S >= window_end);
\* a chunk ending at window_start or starting at window_end is not selected,
\* a chunk ending one second after window_start (and starting before
\* window_end) is.
C5_HalfOpenSelection ==
    SelectionDone =>
        \A k \in DOMAIN all_chunks :
            LET c == all_chunks[k]
                selected == \E j \in DOMAIN selected_chunks :
                                selected_chunks[j] = c
            IN  /\ selected <=> ~(c.E <= window_start \/ c.S >= window_end)
                /\ c.E = window_start => ~selected
                /\ c.S = window_end => ~selected
                /\ (c.E = window_start + 1 /\ c.S < window_end) => selected

\* a chunk ending one second after the window start was selected, and the
\* catalog holds further chunks that were not
C5_Witness ==
    /\ SelectionDone
    /\ \E j \in DOMAIN selected_chunks :
           selected_chunks[j].E = window_start + 1
    /\ Len(selected_chunks) < Len(all_chunks)

\* the catalog, alert and margins of the worked scenario, for a base instant T
Scenario(T) ==
    /\ source = {T, T + 300, T + 600}
    /\ chunk_duration_seconds = 300
    /\ alert_time = T + 290
    /\ before_minutes = 2
    /\ after_minutes = 1

\* C6: worked scenario.  Three 300 s chunks at T, T+300, T+600, alert at
\* T+290, margins 2 min before and 1 min after: the window is
\* [T+170, T+350), the selection is the chunks at T and T+300 in that order,
\* the first trim has offset 170 s and duration 130 s, the second offset 0 s
\* and duration 50 s.
C6_WorkedScenario ==
    \A T \in ChunkStarts :
        Scenario(T) =>
            /\ WindowDone =>
                   window_start = T + 170 /\ window_end = T + 350
            /\ SelectionDone =>
                   [j \in DOMAIN selected_chunks |-> selected_chunks[j].S]
                       = <<T, T + 300>>
            /\ \A k \in Events("trim") :
                   /\ log[k].idx = 0 =>
                          log[k].offset = 170 /\ log[k].duration = 130
                   /\ log[k].idx = 1 =>
                          log[k].offset = 0 /\ log[k].duration = 50
            /\ (Returned /\ outcome = "ok") =>
                   {log[k].idx : k \in Events("trim")} = {0, 1}

\* the scenario ran to a successful return
C6_Witness ==
    /\ \E T \in ChunkStarts : Scenario(T)
    /\ Returned
    /\ outcome = "ok"
    /\ Cardinality(Events("trim")) = 2

\* C7: every trim is run with offset = max(c.S, window_start) - c.S and
\* duration = min(c.E, window_end) - max(c.S, window_start), and both are
\* non-negative, for every alert instant and every pair of non-negative
\* margins.
C7_OffsetAndDuration ==
    \A k \in Events("trim") :
        LET c == selected_chunks[log[k].idx + 1]
            lo == IF c.S >= window_start THEN c.S ELSE window_start
            hi == IF c.E <= window_end THEN c.E ELSE window_end
        IN  /\ log[k].offset = lo - c.S
            /\ log[k].duration = hi - lo
            /\ log[k].offset >= 0
            /\ log[k].duration >= 0

\* a trim with a positive offset, and margins of zero on one side
C7_Witness ==
    /\ before_minutes = 0
    /\ \E k \in Events("trim") : log[k].offset > 0 /\ log[k].duration > 0

\* C8: for a selected chunk that lies inside the window, (offset, duration)
\* is (0, chunk_duration_seconds); for a chunk that overlaps the window only
\* in part, offset and duration lie in [0, chunk_duration_seconds] and
\* offset + duration <= chunk_duration_seconds.
C8_InsideAndPartial ==
    \A k \in Events("trim") :
        LET c == selected_chunks[log[k].idx + 1]
            inside == c.S >= window_start /\ c.E <= window_end
        IN  IF inside
            THEN /\ log[k].offset = 0
                 /\ log[k].duration = chunk_duration_seconds
            ELSE /\ 0 <= log[k].offset
                 /\ log[k].offset <= chunk_duration_seconds
                 /\ 0 <= log[k].duration
                 /\ log[k].duration <= chunk_duration_seconds
                 /\ log[k].offset + log[k].duration <= chunk_duration_seconds

\* a chunk strictly inside the window was trimmed
C8_Witness ==
    \E k \in Events("trim") :
        LET c == selected_chunks[log[k].idx + 1]
        IN  /\ c.S > window_start
            /\ c.E < window_end
            /\ log[k].duration = chunk_duration_seconds

\* no listed chunk overlaps the window
NothingOverlaps ==
    \A k \in DOMAIN all_chunks :
        all_chunks[k].E <= window_start \/ all_chunks[k].S >= window_end

\* C9: when no catalog chunk overlaps the window (an alert in a gap of the
\* catalog included), extract_clip returns the no-footage result and has
\* created no file: nothing was downloaded, no segment, manifest or output
\* file was written.
C9_NoFootageNoFiles ==
    (Returned /\ WindowDone /\ NothingOverlaps) =>
        /\ outcome \in {"no_footage", "no_chunks"}
        /\ all_chunks # <<>> => outcome = "no_footage"
        /\ result = NoResult
        /\ fs = fs0
        /\ temp_files_to_cleanup = <<>>
        /\ \A k \in DOMAIN log : log[k].op = "list"

\* the alert falls in a gap: chunks before and after the window, none in it
C9_Witness ==
    /\ Returned
    /\ outcome = "no_footage"
    /\ \E k \in DOMAIN all_chunks : all_chunks[k].E <= window_start
    /\ \E k \in DOMAIN all_chunks : all_chunks[k].S >= window_end

\* the return statements of extract_clip that report a fatal error
FatalOutcomes ==
    {"credentials", "no_chunks", "download_failed", "trim_failed",
     "trim_timeout", "concat_failed", "concat_timeout", "concat_empty",
     "final_empty", "exception"}

\* C10: the result extract_clip gives for an empty selection can be told
\* apart by the caller from the result it gives for a fatal error.
C10_NoFootageDistinguishable ==
    \A p \in returns, q \in returns :
        (p[1] = "no_footage" /\ q[1] \in FatalOutcomes) => p[2] # q[2]

\* the listing of the current call has been made
ListingDone == Events("list") # {}

\* the enumeration of the source itself failed
EnumerationFailed == \E k \in Events("list") : log[k].res = "error"

Listed(name) == \E i \in DOMAIN all_chunks : all_chunks[i].name = name

\* C11: listing gives the empty sequence, not an error, for a reachable
\* source without matching file, and reports a catalog error only when the
\* enumeration fails; the orchestrator can tell the two apart: what it gets
\* after a failed enumeration differs from what it gets for an empty source.
C11_CatalogErrorDistinguishable ==
    /\ (ListingDone /\ ~EnumerationFailed /\ Files(source, strays) = {}) =>
           all_chunks = <<>>
    /\ (ListingDone /\ EnumerationFailed) =>
           all_chunks # ListedChunks(TRUE, <<>>, local_source_dir,
                                     chunk_duration_seconds)

\* C12: a file whose name deviates from the naming convention (no match, or
\* digit fields that are no valid date or time) never makes the listing
\* fail: it is not listed, and every well-named chunk of the source is.
C12_DeviantNamesSkipped ==
    (ListingDone /\ ~EnumerationFailed) =>
        /\ \A t \in source : Listed(NameOfStart(t))
        /\ \A n \in strays :
               (n.stem # "gcam"
                \/ ~ValidDateTime(n.y, n.mo, n.d, n.h, n.mi, n.s)) =>
                   ~Listed(n)

\* C20: the catalog is sorted ascending by start instant, and chunks of
\* equal start are in the order of their names, whatever the order in which
\* the backend enumerated the files.
C20_SortedTiesByName ==
    ListingDone =>
        \A i \in 1 .. (Len(all_chunks) - 1) :
            /\ all_chunks[i].S <= all_chunks[i + 1].S
            /\ all_chunks[i].S = all_chunks[i + 1].S =>
                   NameLess(all_chunks[i].name, all_chunks[i + 1].name)

\* the faststart remux of the current call failed
RemuxFailed == \E k \in Events("remux") : log[k].res # "ok"

\* C13: when the concatenation succeeded and the faststart remux then fails,
\* extract_clip does not abort: it returns the clip path, the file at that
\* path is the unoptimized concatenated content, and a warning is recorded.
C13_RemuxFallback ==
    (Returned /\ RemuxFailed) =>
        /\ outcome = "ok"
        /\ result[1] = OutputPath(alert_time)
        /\ fs[OutputPath(alert_time)] = "concat"
        /\ \E k \in Events("warning") :
               /\ log[k].res = "non_optimized"
               /\ \E j \in Events("remux") : j < k

\* ffmpeg exited nonzero during the remux, leaving a partial temp file, and
\* the call returned the clip
C13_Witness ==
    /\ Returned
    /\ remux = "nonzero"
    /\ \E k \in Events("remux") : log[k].res = "nonzero"
    /\ result[1] = OutputPath(alert_time)
    /\ ~Exists(fs, FaststartPath(alert_time))

\* the thumbnail step of the current call produced no usable thumbnail
ThumbnailFailed ==
    \E k \in Events("thumbnail") :
        log[k].res # "ok" \/ ~NonEmpty(fs, ThumbPath(alert_time))

\* C14: a failure of the thumbnail generation (nonzero exit, timeout,
\* missing or empty output, any exception) is not fatal: extract_clip
\* returns the clip path with a null thumbnail and the clip file is on disk.
C14_ThumbnailNonFatal ==
    (Returned /\ ThumbnailFailed) =>
        /\ outcome = "ok"
        /\ result = <<OutputPath(alert_time), None>>
        /\ NonEmpty(fs, OutputPath(alert_time))

\* the thumbnail ffmpeg timed out and the clip was returned
C14_Witness ==
    /\ Returned
    /\ \E k \in Events("thumbnail") : log[k].res = "timeout"
    /\ result[1] = OutputPath(alert_time)

\* the paths the call registered for cleanup are gone
RegisteredGone ==
    \A i \in DOMAIN temp_files_to_cleanup :
        ~Exists(fs, temp_files_to_cleanup[i])

SelectionFor(t) ==
    SelectChunks(all_chunks, t - before_minutes * SecondsPerMinute,
                 t + after_minutes * SecondsPerMinute)

\* C18: two extract_clip invocations for different alert instants that run
\* at the same time on one output directory never use the same temporary
\* path: no path the current call has registered (chunk copy, segment,
\* manifest, temporary concatenated file) is a path that a call for another
\* alert instant registers, writes and deletes.
C18_ScratchPathsDisjoint ==
    \A t \in FaultAlertTimes \ {alert_time} :
        Range(temp_files_to_cleanup)
            \cap RegisteredPaths(t, SelectionFor(t), local_source_dir) = {}

RECURSIVE Pow2(_)
Pow2(n) == IF n = 0 THEN 1 ELSE 2 * Pow2(n - 1)

\* C16: retry wraps whole extraction calls and lives in the caller:
\* extract_clip is called at most max_retries times for one alert, never
\* again after a call that returned a clip, and between the failed attempt k
\* and the attempt k+1 the caller sleeps retry_delay_seconds * 2^(k-1)
\* seconds; there is no sleep after the last attempt.
C16_RetryWithBackoff ==
    /\ attempt <= max_retries
    /\ Len(sleeps) = (IF attempt = 0 THEN 0 ELSE attempt - 1)
    /\ \A k \in DOMAIN sleeps : sleeps[k] = retry_delay_seconds * Pow2(k - 1)
    /\ (\E r \in returns : r[2][1] # None) =>
           (Returned /\ result[1] # None)

\* the third attempt returned: the caller slept twice, the second time
\* twice as long as the first
C16_Witness ==
    /\ Returned
    /\ attempt = 3
    /\ Len(sleeps) = 2
    /\ sleeps[2] = 2 * sleeps[1]

\* C15: in the batch loop the failure of one alert (null artifact, missing
\* fields, unparseable alertDate, upload failure, API update failure) is
\* counted as that alert's failure and does not keep the other alerts of
\* the batch from being processed: when main is over, process_alert has been
\* invoked once for every alert and every alert was counted.
C15_EveryAlertProcessed ==
    main_pc \in {"finished", "crashed"} =>
        /\ invoked = [i \in 1 .. Len(alerts) |-> i]
        /\ successful + failed = Len(alerts)

C21_SelectionOrdered ==
    SelectionDone =>
        /\ \A i \in 1 .. (Len(selected_chunks) - 1) :
               selected_chunks[i].S <= selected_chunks[i + 1].S
        /\ \A i \in DOMAIN selected_chunks :
               \E k \in DOMAIN all_chunks : all_chunks[k] = selected_chunks[i]
        /\ \A i, j \in DOMAIN selected_chunks :
               i < j => Rank(all_chunks, selected_chunks[i])
                            < Rank(all_chunks, selected_chunks[j])
        /\ selected_chunks =
               SelectChunks(all_chunks, window_start, window_end)

\* a local directory enumerated in reverse order: two of the three listed
\* chunks are selected
C21_Witness ==
    /\ SelectionDone
    /\ local_source_dir
    /\ Len(enum_order) >= 2
    /\ enum_order = Reverse(SortedByName(Files(source, strays)))
    /\ Len(selected_chunks) = 2
    /\ Len(all_chunks) = 3

\* the start instant written in a file name of the first month of the epoch
StartOfName(n) == (n.d - 1) * 86400 + n.h * 3600 + n.mi * 60 + n.s

\* C22: for every chunk of a catalog, from either backend, end = start +
\* chunk_duration_seconds, where start is the instant written in the file
\* name; so end > start when the configured duration is positive, and all
\* the chunks of a catalog have the same duration.
C22_EndIsStartPlusDuration ==
    ListingDone =>
        /\ \A i \in DOMAIN all_chunks :
               /\ all_chunks[i].S = StartOfName(all_chunks[i].name)
               /\ all_chunks[i].E = all_chunks[i].S + chunk_duration_seconds
               /\ chunk_duration_seconds > 0 =>
                      all_chunks[i].E > all_chunks[i].S
        /\ \A i, j \in DOMAIN all_chunks :
               all_chunks[i].E - all_chunks[i].S
                   = all_chunks[j].E - all_chunks[j].S

\* a catalog of several chunks listed with a duration that is not the default
C22_Witness ==
    /\ ListingDone
    /\ Len(all_chunks) >= 2
    /\ chunk_duration_seconds = SecondsPerMinute
    /\ all_chunks[Len(all_chunks)].S > 0

\* C23: the two backends are interchangeable: for the same set of file
\* names, the listing from object storage and the listing from a local
\* directory are the same sequence of chunks (same names accepted, same
\* start and end, same order).
C23_BackendsInterchangeable ==
    (ListingDone /\ ~EnumerationFailed) =>
        \A is_local \in BOOLEAN :
            \A order \in EnumOrders(is_local, Files(source, strays)) :
                ListedChunks(TRUE, order, is_local, chunk_duration_seconds)
                    = all_chunks

\* C24: with a remote backend, a failed credential check makes extract_clip
\* return the null artifact before it lists chunks, parses the alert time or
\* creates, downloads or deletes any file; with a local directory the check
\* is skipped and never makes the call abort.
C24_CredentialsFailFast ==
    /\ outcome = "credentials" =>
           /\ ~local_source_dir
           /\ Returned
           /\ result = NoResult
           /\ log = <<>>
           /\ window_start = 0 /\ window_end = 0
           /\ all_chunks = <<>>
           /\ temp_files_to_cleanup = <<>>
           /\ fs = fs0
    /\ local_source_dir => \A r \in returns : r[1] # "credentials"

\* the credential check failed in the first call and in the retry
C24_Witness ==
    /\ Returned
    /\ outcome = "credentials"
    /\ attempt = 2
    /\ returns = {<<"credentials", NoResult>>}

\* C25: a trim that exits with status zero and leaves a missing or empty
\* segment file is an extraction error: the call aborts with the null
\* artifact, so no missing or empty segment is ever kept in the list of
\* segments that goes to the concatenation.
C25_EmptySegmentAborts ==
    pc # "returned" =>
        \A i \in DOMAIN part_files : NonEmpty(fs, part_files[i])

NoFileAtAll == \A p \in Paths(alert_time) : ~Exists(fs, p)

C27_WindowNotEmpty ==
    WindowDone => window_start < window_end

\* the clip and the thumbnail an earlier run returned and its caller kept
KeptArtifacts ==
    IF run1 = NoRun THEN {}
    ELSE {p \in {run1.result[1], run1.result[2]} \ {None} : Exists(fs0, p)}

\* C28: extract_clip never deletes a clip or a thumbnail it has produced and
\* returned: at a successful return both returned paths exist, and a later
\* call of extract_clip that fails leaves the files of the earlier call
\* where they are.
C28_ArtifactNeverDeleted ==
    /\ (Returned /\ result[1] # None) =>
           /\ Exists(fs, result[1])
           /\ result[2] # None => Exists(fs, result[2])
    /\ (Returned /\ result = NoResult) =>
           \A p \in KeptArtifacts : Exists(fs, p)

\* a second run for the same alert failed at a download while the clip and
\* the thumbnail of the first run were in the output directory
C28_Witness ==
    /\ Returned
    /\ outcome = "download_failed"
    /\ Cardinality(KeptArtifacts) = 2

\* C29: the chunks are processed one at a time in ascending order
\* (download of chunk i, then trim of chunk i, then chunk i+1), and the
\* concat manifest has one entry per selected chunk, in the order of the
\* selection.
C29_SequentialAndManifestOrder ==
    /\ \A j, k \in DOMAIN log :
           (/\ log[j].op \in {"download", "trim"}
            /\ log[k].op \in {"download", "trim"}
            /\ j < k) =>
               \/ log[j].idx < log[k].idx
               \/ /\ log[j].idx = log[k].idx
                  /\ log[j].op = "download"
                  /\ log[k].op = "trim"
    /\ \A k \in DOMAIN log :
           (log[k].op \in {"download", "trim"} /\ log[k].idx > 0) =>
               \E j \in 1 .. (k - 1) :
                   /\ log[j].op = "trim"
                   /\ log[j].idx = log[k].idx - 1
                   /\ log[j].res = "ok"
    /\ (\E k \in Events("manifest") : log[k].res = "ok") =>
           /\ manifest = [i \in 1 .. Len(selected_chunks) |-> PartPath(i - 1)]
           /\ \A i \in 1 .. (Len(selected_chunks) - 1) :
                  selected_chunks[i].S <= selected_chunks[i + 1].S

\* with S3, two chunks were downloaded and trimmed and the manifest written
C29_Witness ==
    /\ ~local_source_dir
    /\ Len(manifest) = 2
    /\ Cardinality(Events("download")) = 2
    /\ \E k \in Events("manifest") : log[k].res = "ok"

\* every selected chunk has been trimmed
TrimsDone == SelectionDone /\ Cardinality(Events("trim")) = Len(selected_chunks)

RECURSIVE SumOfDurations(_)
SumOfDurations(events) ==
    IF events = <<>> THEN 0
    ELSE Head(events).duration + SumOfDurations(Tail(events))

TrimmedSeconds == SumOfDurations(SelectSeq(log, LAMBDA e : e.op = "trim"))

\* the selected chunks follow one another without gap and cover the window
CoversWindow ==
    /\ selected_chunks # <<>>
    /\ selected_chunks[1].S <= window_start
    /\ selected_chunks[Len(selected_chunks)].E >= window_end
    /\ \A i \in 1 .. (Len(selected_chunks) - 1) :
           selected_chunks[i].E = selected_chunks[i + 1].S

\* the seconds of the window that lie in a selected chunk
CoveredSeconds ==
    {t \in window_start .. (window_end - 1) :
        \E i \in DOMAIN selected_chunks :
            selected_chunks[i].S <= t /\ t < selected_chunks[i].E}

\* C30: when the chunks are contiguous and cover the whole window, the
\* durations of the trimmed segments add up to window_end - window_start,
\* that is (before_minutes + after_minutes) * 60 seconds; in general they
\* add up to the length of the part of the window that lies in the selected
\* chunks.
C30_DurationsAddUp ==
    TrimsDone =>
        /\ TrimmedSeconds = Cardinality(CoveredSeconds)
        /\ CoversWindow =>
               /\ TrimmedSeconds = window_end - window_start
               /\ TrimmedSeconds =
                      (before_minutes + after_minutes) * SecondsPerMinute

\* two contiguous chunks cover a window with a margin on both sides
C30_Witness ==
    /\ TrimsDone
    /\ CoversWindow
    /\ Len(selected_chunks) = 2
    /\ before_minutes > 0
    /\ after_minutes > 0
    /\ TrimmedSeconds = window_end - window_start

\* C31: with a local source directory extract_clip downloads nothing and
\* neither deletes nor overwrites a file of the source directory: at every
\* step and on every return (clip, no footage, trim failure, concatenation
\* failure, exception) every file that was in the directory before the call
\* is still there with its content.
C31_LocalSourceUntouched ==
    local_source_dir =>
        /\ Events("download") = {}
        /\ \A n \in Files(source, strays) : fs[SourcePath(n)] = "chunk"

\* a call on a local directory failed after the segment of its first chunk
\* was cut, and the cleanup ran
C31_Witness ==
    /\ local_source_dir
    /\ Returned
    /\ outcome # "ok"
    /\ idx >= 1
    /\ temp_files_to_cleanup # <<>>
    /\ fs[SourcePath(selected_chunks[1].name)] = "chunk"

\* process_alert has returned
ProcessAlertReturned == pc \in {"done", "rejected"}

\* C32: process_alert returns (True, video URL, thumbnail URL) only if
\* extract_clip returned a clip, upload_file returned a URL and the API
\* update raised nothing; once the clip is uploaded, only a failing API
\* update makes the alert fail, whether or not there is a thumbnail and
\* whether or not its upload worked; and the API update is never attempted
\* without a clip and a video URL.
C32_SuccessNeedsClipUploadApi ==
    /\ (ProcessAlertReturned /\ process_alert_result[1]) =>
           /\ result[1] # None
           /\ s3_url = VideoUrl(alert_time)
           /\ api_update = "ok"
           /\ process_alert_result = <<TRUE, s3_url, thumbnail_url>>
    /\ (pc = "done" /\ s3_url # None /\ api_update # "error") =>
           process_alert_result[1]
    /\ api_update # "none" => (result[1] # None /\ s3_url # None)

\* process_alert returned success although the upload of the thumbnail
\* extract_clip returned had failed
C32_Witness ==
    /\ pc = "done"
    /\ process_alert_result = <<TRUE, VideoUrl(alert_time), None>>
    /\ result[2] # None

process_alert_over == pc \in {"done", "rejected", "raised"}

\* C33: when every call of extract_clip returns no clip, process_alert
\* ends, and it ends after exactly max_retries calls (none when max_retries
\* is 0), without an upload and without an API update, returning
\* (False, None, None).
C33_GivesUpAfterMaxRetries ==
    /\ []((pc = "done" /\ result[1] = None) =>
             /\ attempt = max_retries
             /\ Cardinality(returns) <= attempt
             /\ s3_url = None
             /\ thumbnail_url = None
             /\ api_update = "none"
             /\ process_alert_result = Failure)
    /\ <>process_alert_over

\* process_alert gave up after MaxRetries calls that returned no clip
C33_Witness ==
    /\ pc = "done"
    /\ result[1] = None
    /\ max_retries = MaxRetries
    /\ attempt = MaxRetries
    /\ Len(sleeps) = MaxRetries - 1

\* the clip and the thumbnail extract_clip returned are gone / still there
ArtifactsRemoved ==
    /\ ~Exists(fs, result[1])
    /\ result[2] # None => ~Exists(fs, result[2])

ArtifactsInPlace ==
    /\ NonEmpty(fs, result[1])
    /\ result[2] # None => NonEmpty(fs, result[2])

MainOver == main_pc \in {"exited", "finished", "crashed"}

\* the status, total and processed count now in the status file
StatusNow == read_status_file(status_file)

C36_OnlyWhenEmpty ==
    date_cursor =>
        /\ main_pc = "fetch" =>
               (status_file = NoFile \/ StatusNow[1] = EMPTY)
        /\ (main_pc = "exited" /\ ~fetched) =>
               /\ exit_code = "0"
               /\ invoked = <<>>
               /\ status_writes = <<>>

\* the tasks the last round saw of which the wait accepts a completion
Awaited(task) ==
    /\ task.type = "outcome-comparator"
    /\ \/ task.start = "none"
       \/ task.start = "iso" /\ task.age < SecondsPerHour

\* the last round of the wait saw an awaited task that is completed in the
\* task list, or for which the task status endpoint answered completed
ObservedCompleted ==
    \E k \in DOMAIN last_tasks :
        /\ Awaited(last_tasks[k])
        /\ \/ last_tasks[k].status = "completed"
           \/ last_status = "completed"

\* C37: without --no-wait main leaves the wait, checks the status file,
\* fetches and processes only after a round that observed a completed
\* outcome-comparator task that started less than an hour ago or has no
\* start time; after every other round (API error, no task, another status)
\* main is still waiting and has not exited.
C37_WaitsForCompletedTask ==
    ~no_wait =>
        /\ (main_pc \notin {"start", "wait", "task_status"} \/ fetched) =>
               ObservedCompleted
        /\ main_pc \in {"start", "wait", "task_status"} =>
               (exit_code = "none" /\ ~fetched /\ invoked = <<>>)

\* the task status endpoint answered completed in the second round, after a
\* first round, and the alerts were fetched
C37_Witness ==
    /\ ~no_wait
    /\ polls = MaxPolls
    /\ last_status = "completed"
    /\ fetched
    /\ main_pc = "fetched"

\* C38: main exits with a code other than 0 if and only if an alert of the
\* batch failed or the fetching of the alerts failed; it exits with 0 when
\* every alert succeeded or there was no alert; and when an alert failed,
\* every alert was processed and FINISHED was written before the exit.
C38_ExitCode ==
    MainOver =>
        /\ exit_code # "0" <=>
               (failed > 0 \/ (fetched /\ alerts = <<>>
                                  /\ status_writes = <<>>))
        /\ exit_code # "0" =>
               \/ fetched /\ alerts = <<>> /\ status_writes = <<>>
               \/ /\ invoked = [i \in 1 .. Len(alerts) |-> i]
                  /\ position = Len(alerts)
                  /\ StatusNow[1] = FINISHED

\* C39: status file round trip: for every status string and every pair of
\* counts (a non-negative integer or None each), read_status_file after
\* write_status_file(status, total_count, processed_count) returns
\* (status, total_count, processed_count).
C39_StatusRoundTrip ==
    status_writes # <<>> =>
        read_status_file(status_file) = status_writes[Len(status_writes)]

====
